---- MODULE Spec2Model ----
(***************************************************************************)
(* A state-machine model of the sweep orchestration engine of              *)
(* nirholas/sweep: the x402 payment gate (api/middleware/x402.ts), the     *)
(* BullMQ job queues and waitForJob (queue module), and the Sweep status   *)
(* column (db schema), the Solana wallet scanner (wallet/chains/solana.ts), *)
(* the wallet routes of the API, the redis cache helpers (utils/redis.ts)  *)
(* and the Jupiter quote adapter; the orchestrator, the quote selector     *)
(* and the multi-chain scan, which the repository keeps in other files,    *)
(* are modelled from the specification.                                    *)
(*                                                                         *)
(* One module, several specifications: each subsystem has its own Init and *)
(* Next over the shared variables, and leaves the other subsystems'        *)
(* variables at their initial values.                                      *)
(***************************************************************************)
EXTENDS Integers, Sequences, FiniteSets, TLC

VARIABLES
    clock,      \* Date.now(), in milliseconds
    store,      \* the redis nonce store: key -> expiry (epoch seconds), 0 = absent
    reqs,       \* the HTTP requests in flight through x402Middleware
    admitted,   \* key -> number of requests with that (from, nonce) verified valid AND handled
    probe,      \* the input and clock reading of the latest verifyPayment run (SpecWindow only)
    jobs,       \* the BullMQ queues: queue name -> the jobs it holds, in order of creation
    waiters,    \* the waitForJob calls made so far, in order
    sweeps,     \* the rows of the sweeps table: their status column
    multi,      \* the multi-chain sweeps: overall status and one status per chain leg
    orch,       \* the orchestrator's view of one sweep: status, quote, signature, tx hash
    txns,       \* the transition attempts in flight on the sweeps table
    selection,  \* the latest call of the quote selector: its input and its result
    scanned,    \* the latest SolanaScanner.scan: its input and its result
    response,   \* the latest answer of a wallet route: its input and its result
    fetching,   \* the latest SolanaScanner.fetchTokenAccounts: the provider's data and the loop
    cache,      \* the redis cache of cacheGetOrFetch and the call in progress
    jupiter,    \* the JupiterAggregator: its tokenCache and its latest getQuote
    dust_tokens, \* the rows of the dust_tokens table, in order of insertion
    queues,     \* the module-level queues singleton, its closeQueues call and its callers
    sweeper     \* the PiggyDustSweeper deployment: balances, accumulated fees, latest call

gateVars == <<store, reqs, admitted, probe>>
queueVars == <<jobs, waiters>>
serviceVars == <<selection, scanned, response>>
adapterVars == <<fetching, cache, jupiter>>
ledgerVars == <<dust_tokens, queues, sweeper>>
outsideLedger == <<clock, gateVars, queueVars, sweeps, multi, orch, txns, serviceVars, adapterVars>>
outsideGate == <<jobs, waiters, sweeps, multi, orch, txns, serviceVars, adapterVars, ledgerVars>>
outsideQueue == <<store, reqs, admitted, probe, sweeps, multi, orch, txns, serviceVars, adapterVars, ledgerVars>>
outsideSweeps == <<clock, store, reqs, admitted, probe, jobs, waiters, multi, orch, txns,
                   serviceVars, adapterVars, ledgerVars>>
outsideAdapters == <<gateVars, queueVars, sweeps, multi, orch, txns, serviceVars, ledgerVars>>
outsideMulti == <<clock, gateVars, queueVars, sweeps, orch, txns, serviceVars, adapterVars, ledgerVars>>
outsideOrch == <<gateVars, waiters, sweeps, multi, txns, serviceVars, adapterVars, ledgerVars>>
outsideRace == <<clock, gateVars, queueVars, multi, orch, serviceVars, adapterVars, ledgerVars>>
outsideServices == <<clock, gateVars, queueVars, sweeps, multi, orch, txns, adapterVars, ledgerVars>>

(***************************************************************************)
(* Bounds of the model                                                     *)
(***************************************************************************)
NumRequests == 2    \* concurrent HTTP requests
MaxSeconds == 2     \* the clock runs over 0 .. MaxSeconds epoch seconds
MaxStamp == 1       \* validAfter / validBefore range over 1 .. MaxStamp (or unparsable)
MaxJobs == 2        \* jobs held by a queue
MaxMillis == 1      \* the clock of the queues runs over 0 .. MaxMillis milliseconds
MaxBulk == 2        \* entries of one addBulk call
MaxWaiters == 1     \* waitForJob calls
MaxSweeps == 3      \* rows of the sweeps table
NumLegs == 2        \* chain legs of a multi-chain sweep
MaxMulti == 2       \* multi-chain sweeps
NumWriters == 2     \* concurrent transition attempts
MaxAdapters == 2    \* quote adapters the selector asks
MaxAssets == 2      \* assets of a scanned wallet
MaxTokens == 2      \* balances one chain reports
MaxOwned == 4       \* assets the provider lists for a wallet
limit == 2          \* the page size of getAssetsByOwner (1000 in the code)
QuoteLifetime == 1  \* seconds from a quote's creation to its expiresAt

Requests == 1 .. NumRequests

(***************************************************************************)
(* Strings and numbers as the code converts them                           *)
(***************************************************************************)
\* The value parseInt gives for a string that does not start with a number
\* (NaN); as an input it stands for such a string.  Every comparison
\* with NaN is false.
NaN == -1

\* a < b and a > b on JS numbers
JsLt(a, b) == a # NaN /\ b # NaN /\ a < b
JsGt(a, b) == a # NaN /\ b # NaN /\ a > b

\* String.prototype.toLowerCase on the addresses of the model
toLowerCase(s) ==
    CASE s = "0xFE" -> "0xfe"
      [] s = "0xAB" -> "0xab"
      [] s = "SOL" -> "sol"
      [] OTHER -> s

\* Math.floor(Date.now() / 1000)
NowSec == clock \div 1000

(***************************************************************************)
(* x402 configuration                                                      *)
(***************************************************************************)
USDC_DECIMALS == 6
SweepAmountCents == 10
QuoteAmountCents == 1
NonceTtlBuffer == 3600

Pow10(n) == IF n = 0 THEN 1 ELSE IF n = 1 THEN 10 ELSE IF n = 2 THEN 100
            ELSE IF n = 3 THEN 1000 ELSE IF n = 4 THEN 10000 ELSE 100000

centsToUsdcAmount(cents) == cents * Pow10(USDC_DECIMALS - 2)

\* X402_RECEIVER_ADDRESS as configured
ReceiverAddress == "0xFE"

\* sweepPaymentMiddleware(receiver) and quotePaymentMiddleware(receiver):
\* the two routes of the API that are set up from x402Middleware here
Routes == {"sweep/execute", "sweep/quote"}
RouteConfig(route) ==
    IF route = "sweep/execute"
    THEN [amountCents |-> SweepAmountCents, receiverAddress |-> ReceiverAddress, enabled |-> TRUE]
    ELSE [amountCents |-> QuoteAmountCents, receiverAddress |-> ReceiverAddress, enabled |-> FALSE]

(***************************************************************************)
(* Request inputs                                                          *)
(***************************************************************************)
Payers == {"0xab", "0xAB"}
Nonces == {"n1"}
Receivers == {"0xfe", "0xcc"}
Values == {NaN, 99999, 100000}      \* NaN: a string BigInt() throws on
Stamps == {NaN} \cup (1 .. MaxStamp)

\* `x402:nonce:${from}:${nonce}`
NonceKey(from, nonce) == <<"x402:nonce", from, nonce>>
Keys == {NonceKey(f, n) : f \in Payers, n \in Nonces}

NoAuth == [from |-> "0xab", to |-> "0xfe", value |-> NaN,
           validAfter |-> NaN, validBefore |-> NaN, nonce |-> "n1"]

\* kind: "missing" (no x-payment header), "undecodable" (JSON.parse throws),
\* "malformed" (decodes, but has no payload.authorization), "auth"
AuthHeaders ==
    {[kind |-> "auth",
      auth |-> [from |-> f, to |-> t, value |-> v,
                validAfter |-> va, validBefore |-> vb, nonce |-> n]] :
        f \in Payers, t \in Receivers, v \in Values,
        va \in Stamps, vb \in Stamps, n \in Nonces}
OtherHeaders ==
    {[kind |-> k, auth |-> NoAuth] : k \in {"missing", "undecodable", "malformed"}}
AllHeaders == AuthHeaders \cup OtherHeaders

\* The payment a well-behaved client sends, and the headers that differ
\* from it in at most one field
GoodAuth(f) == [from |-> f, to |-> "0xfe", value |-> 100000,
                validAfter |-> 1, validBefore |-> MaxStamp, nonce |-> "n1"]
Deviations(a) ==
    Cardinality({x \in {"to", "value", "validAfter", "validBefore"} :
                    a[x] # GoodAuth(a.from)[x]})
GateHeaders == {h \in AuthHeaders : Deviations(h.auth) <= 1} \cup OtherHeaders

(***************************************************************************)
(* verifyPayment, up to its first await                                    *)
(***************************************************************************)
\* The result of lines 96-126: an error message, or "redis.get" when the
\* code goes on to read the nonce.
VerifySync(h, config, now) ==
    IF h.kind = "malformed" THEN "Payment verification failed"      \* TypeError, caught
    ELSE IF toLowerCase(h.auth.to) # toLowerCase(config.receiverAddress)
         THEN "Invalid receiver address"
    ELSE IF h.auth.value = NaN THEN "Payment verification failed"   \* BigInt throws, caught
    ELSE IF h.auth.value < centsToUsdcAmount(config.amountCents)
         THEN "Insufficient payment amount"
    ELSE IF JsLt(now, h.auth.validAfter) THEN "Payment not yet valid"
    ELSE IF JsGt(now, h.auth.validBefore) THEN "Payment expired"
    ELSE "redis.get"

\* const ttl = validBefore - now + 3600
NonceTtl(validBefore, now) ==
    IF validBefore = NaN THEN NaN ELSE validBefore - now + NonceTtlBuffer

(***************************************************************************)
(* The requests                                                            *)
(***************************************************************************)
\* pc: "idle" (not yet received), "get" (redis.get sent), "setex" (redis.setex
\* sent), "wrote" (redis has executed the setex; verifyPayment not yet resumed),
\* "done".  result: what the client got: the error message, or "next" when
\* the downstream handler ran.  wrote: this request's setex changed the store.
IdleReq == [pc |-> "idle", key |-> NonceKey("0xab", "n1"), validBefore |-> NaN,
            now |-> 0, result |-> "", wrote |-> FALSE]

\* The result of a request whose downstream handler ran (await next())
Handled == "next"

DoneReq(result, wrote) == [IdleReq EXCEPT !.pc = "done", !.result = result, !.wrote = wrote]

\* A request as it arrives: the nonce key and the validBefore of the
\* authorization it carries, if it carries one, and the time
Arrived(h) ==
    IF h.kind = "auth"
    THEN [IdleReq EXCEPT !.key = NonceKey(h.auth.from, h.auth.nonce),
                         !.validBefore = h.auth.validBefore,
                         !.now = NowSec]
    ELSE IdleReq

\* The request q has its answer; the time read by verifyPayment is of no
\* use any more
Answered(q, result, wrote) ==
    [q EXCEPT !.pc = "done", !.result = result, !.wrote = wrote, !.now = 0]

\* redis.get(key): the value, if the key is set and has not expired
NonceUsed(key) == store[key] > NowSec

\* x402Middleware from the request's arrival to verifyPayment's first await
Receive(r, route, h, record) ==
    LET config == RouteConfig(route)
        v == VerifySync(h, config, NowSec)
    IN  /\ reqs[r].pc = "idle"
        /\ reqs' = [reqs EXCEPT ![r] =
              IF ~config.enabled THEN DoneReq(Handled, FALSE)
              ELSE IF h.kind = "missing" THEN DoneReq("Payment required", FALSE)
              ELSE IF h.kind = "undecodable" THEN DoneReq("Invalid payment header format", FALSE)
              ELSE IF v # "redis.get" THEN Answered(Arrived(h), v, FALSE)
              ELSE [Arrived(h) EXCEPT !.pc = "get"]]
        /\ probe' = IF record THEN [route |-> route, header |-> h, now |-> NowSec, req |-> r]
                    ELSE probe
        /\ UNCHANGED <<clock, store, admitted, outsideGate>>

\* RedisGet, had it marked the nonce before looking at what it read
RedisGetMarksFirst(r) ==
    /\ reqs[r].pc = "get"
    /\ store' = [store EXCEPT ![reqs[r].key] = NowSec + NonceTtlBuffer]
    /\ reqs' = [reqs EXCEPT ![r] =
          IF NonceUsed(reqs[r].key) THEN Answered(@, "Nonce already used", TRUE)
          ELSE [@ EXCEPT !.pc = "setex"]]
    /\ UNCHANGED <<clock, admitted, probe, outsideGate>>

\* redis executes the get and verifyPayment resumes: lines 127-144
RedisGet(r) ==
    /\ reqs[r].pc = "get"
    /\ reqs' = [reqs EXCEPT ![r] =
          IF NonceUsed(reqs[r].key) THEN Answered(@, "Nonce already used", FALSE)
          ELSE [@ EXCEPT !.pc = "setex"]]
    /\ UNCHANGED <<clock, store, admitted, probe, outsideGate>>

\* redis executes setex(nonceKey, ttl, "1"): an error reply, and no write,
\* when ttl is not a positive integer
RedisSetex(r) ==
    LET ttl == NonceTtl(reqs[r].validBefore, reqs[r].now)
    IN  /\ reqs[r].pc = "setex"
        /\ IF ttl = NaN \/ ttl <= 0
           THEN /\ reqs' = [reqs EXCEPT ![r] = Answered(@, "Payment verification failed", FALSE)]
                /\ UNCHANGED store
           ELSE /\ store' = [store EXCEPT ![reqs[r].key] = NowSec + ttl]
                /\ reqs' = [reqs EXCEPT ![r] = [@ EXCEPT !.pc = "wrote", !.wrote = TRUE]]
        /\ UNCHANGED <<clock, admitted, probe, outsideGate>>

\* What the handler behind the gate does: it answers 200, it answers 501
\* "Not implemented yet" (the handlers of the sweep routes as they stand), or
\* it throws
HandlerOutcomes == {"ok", "Not implemented yet", "throws"}

\* AdmitWith, had the middleware given the nonce back when the handler throws
AdmitWithRelease(r, outcome) ==
    /\ reqs[r].pc = "wrote"
    /\ admitted' = [admitted EXCEPT ![reqs[r].key] = @ + 1]
    /\ reqs' = [reqs EXCEPT ![r] = Answered(@, outcome, TRUE)]
    /\ store' = IF outcome = "throws" THEN [store EXCEPT ![reqs[r].key] = 0] ELSE store
    /\ UNCHANGED <<clock, probe, outsideGate>>

\* verifyPayment returns {valid: true}; the middleware settles in the
\* background, sets the response header and calls next(), and the handler
\* ends with outcome: lines 146, 247-280
AdmitWith(r, outcome) ==
    /\ reqs[r].pc = "wrote"
    /\ admitted' = [admitted EXCEPT ![reqs[r].key] = @ + 1]
    /\ reqs' = [reqs EXCEPT ![r] = Answered(@, outcome, TRUE)]
    /\ UNCHANGED <<clock, store, probe, outsideGate>>

\* The same, when what the handler does is left open
Admit(r) == AdmitWith(r, Handled)

(***************************************************************************)
(* The status of the answer, in the assembled API                          *)
(***************************************************************************)
\* The answers the gate gives by throwing: HTTPException(400, ...) for a
\* header that does not decode and HTTPException(402, ...) for a failed
\* verification; "Payment required" is returned with c.json
GateThrows(result) ==
    result \notin {"Payment required", Handled, "ok", "Not implemented yet", "throws"}

\* The status the middleware and the handlers give their answer
ChosenStatus(result) ==
    CASE result = "Payment required" -> 402
      [] result = "Invalid payment header format" -> 400
      [] result \in {Handled, "ok"} -> 200
      [] result = "Not implemented yet" -> 501
      [] result = "throws" -> 500
      [] OTHER -> 402

\* app.onError((err, c) => c.json({ error: "Internal server error" }, 500)):
\* the handler the application installs for every error thrown under it
onError(err) == 500

\* The status the client receives: what onError answers when the gate or
\* the handler threw, otherwise the status of the answer returned
ClientStatus(result) ==
    IF GateThrows(result) \/ result = "throws" THEN onError(result) ELSE ChosenStatus(result)

(***************************************************************************)
(* Sequential requests over hours: a first request and, once it has been   *)
(* answered, a second one                                                  *)
(***************************************************************************)
MaxHours == 2       \* the clock of the sequential runs covers MaxHours hours

\* A validBefore that is past the expiry of the nonce record of an
\* authorization whose validBefore is MaxStamp
LateStamp == MaxHours * NonceTtlBuffer

\* Authorizations that pass the receiver and amount checks, for either
\* spelling of the payer's address, with a near or a far validBefore
ReplayHeaders ==
    {[kind |-> "auth", auth |-> [GoodAuth(f) EXCEPT !.validBefore = vb]] :
        f \in Payers, vb \in {MaxStamp, LateStamp}}

\* No request is between its arrival and its answer
Quiet == \A r \in Requests : reqs[r].pc \in {"idle", "done"}

\* The first request is request 1, the second is request 2 and arrives
\* after the answer to the first
ReceiveInTurn(r, h) ==
    /\ r \in {1, 2}
    /\ r = 2 => reqs[1].pc = "done"
    /\ Receive(r, "sweep/execute", h, TRUE)

\* seconds pass: a second at any time in the first seconds of an hour, an
\* hour between requests
Elapse(seconds) ==
    /\ seconds > 1 => Quiet
    /\ seconds = 1 => NowSec % NonceTtlBuffer < MaxSeconds
    /\ NowSec + seconds <= MaxHours * NonceTtlBuffer + MaxSeconds
    /\ clock' = clock + seconds * 1000
    /\ UNCHANGED <<gateVars, outsideGate>>

\* one second passes
TickSecond ==
    /\ NowSec < MaxSeconds
    /\ clock' = clock + 1000
    /\ UNCHANGED <<gateVars, outsideGate>>

(***************************************************************************)
(* The job queues (BullMQ)                                                 *)
(***************************************************************************)
QueueNames == {"wallet-scan", "price-update", "sweep-execute",
               "sweep-track", "bridge-execute", "bridge-track"}

\* defaultQueueOptions.defaultJobOptions.attempts and the overrides of getQueues
DefaultAttempts == 3
SweepExecuteAttempts == 5
BridgeExecuteAttempts == 3
BridgeTrackAttempts == 1

\* getQueues: the attempts option each queue gives its jobs.  A queue
\* that spreads defaultQueueOptions and overrides nothing keeps the default.
QueueAttempts(q) ==
    CASE q = "sweep-execute" -> SweepExecuteAttempts
      [] q = "bridge-execute" -> BridgeExecuteAttempts
      [] q = "bridge-track" -> BridgeTrackAttempts
      [] OTHER -> DefaultAttempts

\* options?.delay ?? 5000 and options?.delay ?? 10000
SweepTrackDelay == 5000
BridgeTrackDelay == 10000

\* An optional number: <<>> is undefined, <<n>> is n
DelayOptions == {<<>>, <<0>>, <<1000>>}
Coalesce(opt, default) == IF opt = <<>> THEN default ELSE opt[1]

\* The payloads of the model
WalletScanData == {[walletAddress |-> "w1"]}
PriceUpdateData == {[chain |-> "base", tokenAddress |-> a] : a \in {"0xAB", "0xab"}}
SweepExecutePayload(sweepId, signature) ==
    [userId |-> "u1", sweepId |-> sweepId, quoteId |-> <<"quote", sweepId>>,
     walletAddress |-> "w1", signature |-> signature,
     tokens |-> <<[address |-> "0xab", chain |-> "base", amount |-> "5"]>>,
     outputToken |-> "0xfe", outputChain |-> "base"]
SweepExecuteData == {SweepExecutePayload("s1", "sig")}
SweepTrackData == {[sweepId |-> "s1", txHash |-> t] : t \in {"t1", "t2"}}
BridgeExecuteData == {[planId |-> "p1"]}
BridgeTrackData == {[bridgeId |-> "b1", sourceTxHash |-> t] : t \in {"t1", "t2"}}

\* The jobId template strings, as tuples of their parts
WalletScanJobId(data, now) == <<"scan", data.walletAddress, now>>
\* PriceUpdateJobId, had it kept the address as given
PriceUpdateJobIdAsGiven(data) == <<"price", data.chain, data.tokenAddress>>
PriceUpdateJobId(data) == <<"price", data.chain, toLowerCase(data.tokenAddress)>>
SweepExecuteJobId(data) == <<"sweep", data.sweepId>>
SweepTrackJobId(data) == <<"track", data.sweepId, data.txHash>>
BridgeExecuteJobId(data) == <<"bridge", data.planId>>
BridgeTrackJobId(data) == <<"bridge-track", data.bridgeId, data.sourceTxHash>>

\* Sequences of at most n elements of S, without and with the empty one
RECURSIVE SeqsUpTo(_, _)
SeqsUpTo(S, n) ==
    IF n = 0 THEN {<<>>}
    ELSE LET shorter == SeqsUpTo(S, n - 1)
         IN  shorter \cup {Append(s, x) : s \in shorter, x \in S}

\* The queues share no state, and the model runs them one at a time: a
\* queue takes a job only while every other queue is empty
OthersEmpty(q) == \A p \in QueueNames \ {q} : jobs[p] = <<>>

\* The callers of the add functions of the model add their jobs during the
\* first MaxMillis milliseconds
AddingTime == clock <= MaxMillis

JobIndex(js, id) == {i \in 1 .. Len(js) : js[i].id = id}

\* The state of the job with this id in a queue's jobs, "absent" if none
JobState(js, id) ==
    IF JobIndex(js, id) = {} THEN "absent"
    ELSE js[CHOOSE i \in JobIndex(js, id) : TRUE].state

\* A job as Queue.add creates it: delayed when it has a delay, waiting
\* otherwise; its attempts option is the queue's default; timestamp is the
\* time of its creation
NewJob(q, id, data, delay) ==
    [id |-> id, data |-> data,
     state |-> IF delay > 0 THEN "delayed" ELSE "waiting",
     attempts |-> QueueAttempts(q), attemptsMade |-> 0, duplicated |-> FALSE,
     delay |-> delay, timestamp |-> clock]

\* Queue.add(name, data, {jobId, delay}) on the jobs js of queue q: a job
\* whose id the queue already holds is not added again (BullMQ reports it as
\* 'duplicated' and returns the existing job)
QueueAdd(js, q, id, data, delay) ==
    IF JobIndex(js, id) # {}
    THEN [i \in 1 .. Len(js) |->
            IF js[i].id = id THEN [js[i] EXCEPT !.duplicated = TRUE] ELSE js[i]]
    ELSE Append(js, NewJob(q, id, data, delay))

\* Queue.addBulk(entries): the entries are added in order
RECURSIVE QueueAddBulk(_, _, _)
QueueAddBulk(js, q, entries) ==
    IF entries = <<>> THEN js
    ELSE QueueAddBulk(QueueAdd(js, q, Head(entries).id, Head(entries).data,
                               Head(entries).delay),
                      q, Tail(entries))

Enqueue(q, id, data, delay) ==
    /\ OthersEmpty(q)
    /\ AddingTime
    /\ JobIndex(jobs[q], id) = {} => Len(jobs[q]) < MaxJobs
    /\ jobs' = [jobs EXCEPT ![q] = QueueAdd(@, q, id, data, delay)]
    /\ UNCHANGED <<clock, waiters, outsideQueue>>

addWalletScanJob(data, delayOpt) ==
    Enqueue("wallet-scan", WalletScanJobId(data, clock), data, Coalesce(delayOpt, 0))

addPriceUpdateJob(data, delayOpt) ==
    Enqueue("price-update", PriceUpdateJobId(data), data, Coalesce(delayOpt, 0))

addSweepExecuteJob(data) ==
    Enqueue("sweep-execute", SweepExecuteJobId(data), data, 0)

addSweepTrackJob(data, delayOpt) ==
    Enqueue("sweep-track", SweepTrackJobId(data), data, Coalesce(delayOpt, SweepTrackDelay))

addBridgeExecuteJob(data) ==
    Enqueue("bridge-execute", BridgeExecuteJobId(data), data, 0)

\* addBridgeTrackJob, had it the delay of the sweep tracking jobs
addBridgeTrackJobAsSweep(data, delayOpt) ==
    Enqueue("bridge-track", BridgeTrackJobId(data), data, Coalesce(delayOpt, SweepTrackDelay))

addBridgeTrackJob(data, delayOpt) ==
    Enqueue("bridge-track", BridgeTrackJobId(data), data, Coalesce(delayOpt, BridgeTrackDelay))

addBulkBridgeTrackJobs(bridges) ==
    /\ OthersEmpty("bridge-track")
    /\ AddingTime
    /\ Len(jobs["bridge-track"]) + Len(bridges) <= MaxJobs
    /\ jobs' = [jobs EXCEPT !["bridge-track"] =
          QueueAddBulk(@, "bridge-track",
              [i \in 1 .. Len(bridges) |->
                  [id |-> BridgeTrackJobId(bridges[i]), data |-> bridges[i],
                   delay |-> BridgeTrackDelay]])]
    /\ UNCHANGED <<clock, waiters, outsideQueue>>

addBulkPriceUpdateJobs(tokens) ==
    /\ OthersEmpty("price-update")
    /\ AddingTime
    /\ Len(jobs["price-update"]) + Len(tokens) <= MaxJobs
    /\ jobs' = [jobs EXCEPT !["price-update"] =
          QueueAddBulk(@, "price-update",
              [i \in 1 .. Len(tokens) |->
                  [id |-> PriceUpdateJobId([chain |-> tokens[i].chain,
                                            tokenAddress |-> tokens[i].address]),
                   data |-> [chain |-> tokens[i].chain, tokenAddress |-> tokens[i].address],
                   delay |-> 0]])]
    /\ UNCHANGED <<clock, waiters, outsideQueue>>

(***************************************************************************)
(* waitForJob                                                              *)
(***************************************************************************)
\* resolve(v) and reject(e) of a promise: the first call settles it, every
\* later call is ignored
Settle(promise, state, value) ==
    IF promise.state = "pending" THEN [state |-> state, value |-> value] ELSE promise

\* clearTimeout: a timer that has fired or was cleared is left as it is
ClearTimeout(timer) == IF timer = "armed" THEN "cleared" ELSE timer

ReturnValue(id) == <<"returnvalue", id>>
FailedReason(id) == <<"failedReason", id>>
TimedOut(id) == <<"timed out", id>>

\* OnCompleted, had it not compared the job ids
OnCompletedOfAnyJob(w, ev) ==
    [w EXCEPT !.timer = ClearTimeout(@),
              !.promise = Settle(@, "resolved", ev.returnvalue)]

\* The listener on 'completed'
OnCompleted(w, ev) ==
    IF ev.jobId = w.jobId
    THEN [w EXCEPT !.timer = ClearTimeout(@),
                   !.promise = Settle(@, "resolved", ev.returnvalue)]
    ELSE w

\* The listener on 'failed'
OnFailed(w, ev) ==
    IF ev.jobId = w.jobId
    THEN [w EXCEPT !.timer = ClearTimeout(@),
                   !.promise = Settle(@, "rejected", ev.failedReason)]
    ELSE w

\* The QueueEvents of queue q emit an event: every listener registered on
\* them runs
EmitCompleted(q, ev) ==
    [i \in 1 .. Len(waiters) |->
        IF waiters[i].queue = q THEN OnCompleted(waiters[i], ev) ELSE waiters[i]]
EmitFailed(q, ev) ==
    [i \in 1 .. Len(waiters) |->
        IF waiters[i].queue = q THEN OnFailed(waiters[i], ev) ELSE waiters[i]]

\* waitForJob(queueName, jobId, timeoutMs): the timer is armed and both
\* listeners are registered; the promise is pending
waitForJob(q, jobId) ==
    /\ Len(waiters) < MaxWaiters
    /\ waiters' = Append(waiters,
          [queue |-> q, jobId |-> jobId, timer |-> "armed",
           promise |-> [state |-> "pending", value |-> <<"none", jobId>>]])
    /\ UNCHANGED <<clock, jobs, outsideQueue>>

\* TimeoutFires, had the callback also removed the job from its queue
TimeoutFiresAndRemoves(i) ==
    /\ waiters[i].timer = "armed"
    /\ waiters' = [waiters EXCEPT ![i] =
          [@ EXCEPT !.timer = "fired",
                    !.promise = Settle(@, "rejected", TimedOut(waiters[i].jobId))]]
    /\ jobs' = [jobs EXCEPT ![waiters[i].queue] =
          SelectSeq(@, LAMBDA job : job.id # waiters[i].jobId)]
    /\ UNCHANGED <<clock, outsideQueue>>

\* timeoutMs after the call the timer's callback runs
TimeoutFires(i) ==
    /\ waiters[i].timer = "armed"
    /\ waiters' = [waiters EXCEPT ![i] =
          [@ EXCEPT !.timer = "fired",
                    !.promise = Settle(@, "rejected", TimedOut(waiters[i].jobId))]]
    /\ UNCHANGED <<clock, jobs, outsideQueue>>

(***************************************************************************)
(* The workers (BullMQ), driven by the job options above                   *)
(***************************************************************************)
SetJob(q, i, job) == jobs' = [jobs EXCEPT ![q] = [@ EXCEPT ![i] = job]]

\* the delay of a delayed job is over: delay milliseconds have passed since
\* its creation (the backoff of a retry is not timed)
PromoteJob(q, i) ==
    /\ jobs[q][i].state = "delayed"
    /\ clock >= jobs[q][i].timestamp + jobs[q][i].delay
    /\ SetJob(q, i, [jobs[q][i] EXCEPT !.state = "waiting"])
    /\ UNCHANGED <<clock, waiters, outsideQueue>>

\* a worker takes the job
StartJob(q, i) ==
    /\ jobs[q][i].state = "waiting"
    /\ SetJob(q, i, [jobs[q][i] EXCEPT !.state = "active"])
    /\ UNCHANGED <<clock, waiters, outsideQueue>>

\* the processor returns: the job is completed and 'completed' is emitted
CompleteJob(q, i) ==
    /\ jobs[q][i].state = "active"
    /\ SetJob(q, i, [jobs[q][i] EXCEPT !.state = "completed"])
    /\ waiters' = EmitCompleted(q, [jobId |-> jobs[q][i].id,
                                    returnvalue |-> ReturnValue(jobs[q][i].id)])
    /\ UNCHANGED <<clock, outsideQueue>>

\* AfterFailure, had it allowed one retry more
AfterFailureOneMore(job) ==
    IF job.attemptsMade + 1 <= job.attempts
    THEN [job EXCEPT !.state = "delayed", !.attemptsMade = @ + 1]
    ELSE [job EXCEPT !.state = "failed", !.attemptsMade = @ + 1]

\* The state of a job whose attempt failed: retried after its backoff while
\* attempts are left, failed otherwise
AfterFailure(job) ==
    IF job.attemptsMade + 1 < job.attempts
    THEN [job EXCEPT !.state = "delayed", !.attemptsMade = @ + 1]
    ELSE [job EXCEPT !.state = "failed", !.attemptsMade = @ + 1]

\* the processor throws: 'failed' is emitted when the job ends failed
FailJob(q, i) ==
    /\ jobs[q][i].state = "active"
    /\ SetJob(q, i, AfterFailure(jobs[q][i]))
    /\ waiters' = IF AfterFailure(jobs[q][i]).state = "failed"
                  THEN EmitFailed(q, [jobId |-> jobs[q][i].id,
                                      failedReason |-> FailedReason(jobs[q][i].id)])
                  ELSE waiters
    /\ UNCHANGED <<clock, outsideQueue>>

\* removeOnComplete / removeOnFail: a finished job leaves the queue when it
\* is older than the age or beyond the count kept
PruneJob(q, i) ==
    /\ jobs[q][i].state \in {"completed", "failed"}
    /\ jobs' = [jobs EXCEPT ![q] =
          [k \in 1 .. Len(@) - 1 |-> IF k < i THEN @[k] ELSE @[k + 1]]]
    /\ UNCHANGED <<clock, waiters, outsideQueue>>

\* The times at which the delay of a delayed job will be over
DueTimes ==
    {jobs[q][i].timestamp + jobs[q][i].delay :
        <<q, i>> \in {<<q, i>> \in QueueNames \X (1 .. MaxJobs + 1) :
                         /\ i <= Len(jobs[q])
                         /\ jobs[q][i].state = "delayed"
                         /\ jobs[q][i].timestamp + jobs[q][i].delay > clock}}

\* time passes until the delay of the next delayed job is over; the model
\* lets this happen while the clock has not passed upTo
DelayElapses(upTo) ==
    /\ clock <= upTo
    /\ DueTimes # {}
    /\ clock' = CHOOSE t \in DueTimes : \A u \in DueTimes : t <= u
    /\ UNCHANGED <<queueVars, outsideQueue>>

\* one millisecond passes
TickMs ==
    /\ clock < MaxMillis
    /\ clock' = clock + 1
    /\ UNCHANGED <<queueVars, outsideQueue>>

(***************************************************************************)
(* The sweeps table and the orchestrator's transitions                     *)
(***************************************************************************)
\* The values of the status column
SweepStatuses == {"pending", "quoting", "signing", "submitted",
                  "confirmed", "failed", "cancelled"}

\* DefaultStatus, had the column defaulted to another status
DefaultStatusQuoting == "quoting"

\* status: varchar(...).default("pending").notNull()
DefaultStatus == "pending"

\* An insert that gives no status
CreateSweep ==
    /\ Len(sweeps) < MaxSweeps
    /\ sweeps' = Append(sweeps, [status |-> DefaultStatus])
    /\ UNCHANGED outsideSweeps

\* A transition function of the orchestrator: it reads the current status,
\* checks that the transition is legal and writes the new status
Transition(i, from, to) ==
    /\ sweeps[i].status = from
    /\ sweeps' = [sweeps EXCEPT ![i] = [@ EXCEPT !.status = to]]
    /\ UNCHANGED outsideSweeps

StartQuoting(i) == Transition(i, "pending", "quoting")
AwaitSignature(i) == Transition(i, "quoting", "signing")
SubmitSweep(i) == Transition(i, "signing", "submitted")
ConfirmSweep(i) == Transition(i, "submitted", "confirmed")
FailSweep(i) == Transition(i, "submitted", "failed")
CancelSweep(i) ==
    \E from \in {"pending", "quoting", "signing"} : Transition(i, from, "cancelled")

(***************************************************************************)
(* Multi-chain sweeps: the chain legs and the overall status               *)
(***************************************************************************)
\* The chain legs of a multi-chain sweep
Legs == 1 .. NumLegs

\* ChainStatus.status
LegStatuses == {"pending", "submitted", "confirmed", "failed"}

\* The overall status, had it followed any confirmed leg
OverallOfAnyLeg(chainStatuses) ==
    IF \E c \in Legs : chainStatuses[c] = "confirmed" THEN "confirmed"
    ELSE IF \E c \in Legs : chainStatuses[c] = "failed" THEN "failed"
    ELSE "submitted"

\* The overall status of a submitted sweep with these leg statuses: FAILED
\* when a leg is failed, CONFIRMED when every leg is confirmed
Overall(chainStatuses) ==
    IF \E c \in Legs : chainStatuses[c] = "failed" THEN "failed"
    ELSE IF \A c \in Legs : chainStatuses[c] = "confirmed" THEN "confirmed"
    ELSE "submitted"

\* A signed multi-chain sweep is submitted: every leg is pending
SubmitMulti ==
    /\ Len(multi) < MaxMulti
    /\ multi' = Append(multi, [status |-> "submitted",
                               chainStatuses |-> [c \in Legs |-> "pending"]])
    /\ UNCHANGED outsideMulti

\* Leg c of sweep s gets the status to, and the overall status follows
SetLeg(s, c, to) ==
    LET after == [multi[s].chainStatuses EXCEPT ![c] = to]
    IN  multi' = [multi EXCEPT ![s] = [status |-> Overall(after), chainStatuses |-> after]]

\* The leg's transaction is broadcast
LegSubmitted(s, c) ==
    /\ multi[s].chainStatuses[c] = "pending"
    /\ SetLeg(s, c, "submitted")
    /\ UNCHANGED outsideMulti

\* The leg's transaction is final on its chain
LegConfirmed(s, c) ==
    /\ multi[s].chainStatuses[c] = "submitted"
    /\ SetLeg(s, c, "confirmed")
    /\ UNCHANGED outsideMulti

\* LegFails, had it also marked the other legs of the sweep failed
LegFailsAndRollsBack(s, c) ==
    /\ multi[s].chainStatuses[c] \in {"pending", "submitted"}
    /\ multi' = [multi EXCEPT ![s] = [status |-> "failed",
                                      chainStatuses |-> [d \in Legs |-> "failed"]]]
    /\ UNCHANGED outsideMulti

\* The leg fails or its tracking times out; no compensating action exists
LegFails(s, c) ==
    /\ multi[s].chainStatuses[c] \in {"pending", "submitted"}
    /\ SetLeg(s, c, "failed")
    /\ UNCHANGED outsideMulti

(***************************************************************************)
(* The orchestrator: one same-chain sweep and one bridge plan, from the    *)
(* quote to the end of tracking                                            *)
(***************************************************************************)
OrchSweeps == {"s1", "s2"}
Kind(s) == IF s = "s1" THEN "swap" ELSE "bridge"

BridgeExecutePayload(planId, signature) ==
    [planId |-> planId, userId |-> "u1", walletAddress |-> "w1", signature |-> signature,
     bridges |-> <<[sourceChain |-> "base", destinationChain |-> "arbitrum",
                    quoteId |-> <<"quote", planId>>, token |-> "0xab", amount |-> "5"]>>]
SweepTrackPayload(sweepId, txHash) == [sweepId |-> sweepId, txHash |-> txHash, chain |-> "base"]
BridgeTrackPayload(planId, txHash) ==
    [planId |-> planId, bridgeId |-> <<"leg", planId>>, sourceTxHash |-> txHash,
     sourceChain |-> "base", destinationChain |-> "arbitrum", provider |-> "across"]

ExecQueue(s) == IF Kind(s) = "swap" THEN "sweep-execute" ELSE "bridge-execute"
TrackQueue(s) == IF Kind(s) = "swap" THEN "sweep-track" ELSE "bridge-track"
ExecPayload(s, signature) ==
    IF Kind(s) = "swap" THEN SweepExecutePayload(s, signature)
    ELSE BridgeExecutePayload(s, signature)
ExecJobId(s) ==
    IF Kind(s) = "swap" THEN SweepExecuteJobId(ExecPayload(s, ""))
    ELSE BridgeExecuteJobId(ExecPayload(s, ""))
TrackPayload(s, txHash) ==
    IF Kind(s) = "swap" THEN SweepTrackPayload(s, txHash) ELSE BridgeTrackPayload(s, txHash)
TrackJobId(s, txHash) ==
    IF Kind(s) = "swap" THEN SweepTrackJobId(TrackPayload(s, txHash))
    ELSE BridgeTrackJobId(TrackPayload(s, txHash))
TrackDelay(s) == IF Kind(s) = "swap" THEN SweepTrackDelay ELSE BridgeTrackDelay

\* The hash of the transaction the execution job of s broadcasts
TxOf(s) == <<"tx", s>>

\* A sweep before anything happened to it: no quote, signature or hash
NewOrch == [status |-> DefaultStatus, expiresAt |-> 0, signature |-> "", txHash |-> <<>>,
            error |-> ""]

\* The job of queue q with this id (there is one)
JobAt(q, id) == CHOOSE i \in 1 .. Len(jobs[q]) : jobs[q][i].id = id

\* PENDING -> QUOTING: the chosen quote is persisted with its expiresAt
StartQuote(s) ==
    /\ orch[s].status = "pending"
    /\ orch' = [orch EXCEPT ![s] =
          [@ EXCEPT !.status = "quoting", !.expiresAt = NowSec + QuoteLifetime]]
    /\ UNCHANGED <<clock, jobs, outsideOrch>>

\* A sweep whose quote expired is quoted again
Requote(s) ==
    /\ orch[s].status = "quoting"
    /\ NowSec > orch[s].expiresAt
    /\ orch' = [orch EXCEPT ![s] =
          [@ EXCEPT !.expiresAt = NowSec + QuoteLifetime, !.error = ""]]
    /\ UNCHANGED <<clock, jobs, outsideOrch>>

\* SignatureArrives, had it not looked at the quote's expiry
SignatureArrivesUnchecked(s) ==
    /\ orch[s].status = "quoting"
    /\ orch' = [orch EXCEPT ![s] =
          [@ EXCEPT !.status = "signing", !.signature = "sig", !.error = ""]]
    /\ UNCHANGED <<clock, jobs, outsideOrch>>

\* QUOTING -> SIGNING: the user's signature arrives; QuoteExpired when the
\* wall clock is past the quote's expiresAt
SignatureArrives(s) ==
    /\ orch[s].status = "quoting"
    /\ orch' = [orch EXCEPT ![s] =
          IF NowSec > orch[s].expiresAt
          THEN [@ EXCEPT !.error = "QuoteExpired"]
          ELSE [@ EXCEPT !.status = "signing", !.signature = "sig", !.error = ""]]
    /\ UNCHANGED <<clock, jobs, outsideOrch>>

\* SubmitExecution, had it enqueued for a sweep that is still being quoted
SubmitExecutionUnsigned(s) ==
    /\ orch[s].status \in {"quoting", "signing"}
    /\ jobs' = [jobs EXCEPT ![ExecQueue(s)] =
          QueueAdd(@, ExecQueue(s), ExecJobId(s), ExecPayload(s, orch[s].signature), 0)]
    /\ orch' = [orch EXCEPT ![s] = [@ EXCEPT !.status = "submitted"]]
    /\ UNCHANGED <<clock, outsideOrch>>

\* SIGNING -> SUBMITTED: the execution job is enqueued (addSweepExecuteJob,
\* addBridgeExecuteJob)
SubmitExecution(s) ==
    /\ orch[s].status = "signing"
    /\ jobs' = [jobs EXCEPT ![ExecQueue(s)] =
          QueueAdd(@, ExecQueue(s), ExecJobId(s), ExecPayload(s, orch[s].signature), 0)]
    /\ orch' = [orch EXCEPT ![s] = [@ EXCEPT !.status = "submitted"]]
    /\ UNCHANGED <<clock, outsideOrch>>

\* The execution job broadcasts its transaction and completes; the tracking
\* job for the hash is enqueued (addSweepTrackJob, addBridgeTrackJob)
ExecutionBroadcast(s) ==
    LET q == ExecQueue(s)
        t == TrackQueue(s)
    IN  /\ JobState(jobs[q], ExecJobId(s)) = "active"
        /\ jobs' = [jobs EXCEPT
              ![q] = [@ EXCEPT ![JobAt(q, ExecJobId(s))] = [@ EXCEPT !.state = "completed"]],
              ![t] = QueueAdd(@, t, TrackJobId(s, TxOf(s)), TrackPayload(s, TxOf(s)),
                              TrackDelay(s))]
        /\ orch' = [orch EXCEPT ![s] = [@ EXCEPT !.txHash = TxOf(s)]]
        /\ UNCHANGED <<clock, outsideOrch>>

\* The execution job ended failed: SUBMITTED -> FAILED
ExecutionFailed(s) ==
    /\ orch[s].status = "submitted"
    /\ JobState(jobs[ExecQueue(s)], ExecJobId(s)) = "failed"
    /\ orch' = [orch EXCEPT ![s] = [@ EXCEPT !.status = "failed"]]
    /\ UNCHANGED <<clock, jobs, outsideOrch>>

\* The tracking job sees the transaction confirmed: SUBMITTED -> CONFIRMED
TrackConfirmed(s) ==
    LET t == TrackQueue(s)
        id == TrackJobId(s, TxOf(s))
    IN  /\ orch[s].status = "submitted"
        /\ JobState(jobs[t], id) = "active"
        /\ jobs' = [jobs EXCEPT ![t] = [@ EXCEPT ![JobAt(t, id)] =
                                            [@ EXCEPT !.state = "completed"]]]
        /\ orch' = [orch EXCEPT ![s] = [@ EXCEPT !.status = "confirmed"]]
        /\ UNCHANGED <<clock, outsideOrch>>

\* The tracking job sees a revert or gives up: SUBMITTED -> FAILED when the
\* job ends failed
TrackFailed(s) ==
    LET t == TrackQueue(s)
        id == TrackJobId(s, TxOf(s))
        after == AfterFailure(jobs[t][JobAt(t, id)])
    IN  /\ orch[s].status = "submitted"
        /\ JobState(jobs[t], id) = "active"
        /\ jobs' = [jobs EXCEPT ![t] = [@ EXCEPT ![JobAt(t, id)] = after]]
        /\ orch' = [orch EXCEPT ![s] =
              [@ EXCEPT !.status = IF after.state = "failed" THEN "failed" ELSE @]]
        /\ UNCHANGED <<clock, outsideOrch>>

\* The user cancels before submission
CancelOrch(s) ==
    /\ orch[s].status \in {"pending", "quoting", "signing"}
    /\ orch' = [orch EXCEPT ![s] = [@ EXCEPT !.status = "cancelled"]]
    /\ UNCHANGED <<clock, jobs, outsideOrch>>

(***************************************************************************)
(* Concurrent transition attempts on one row of the sweeps table           *)
(***************************************************************************)
Writers == 1 .. NumWriters

\* The transitions the orchestrator has a function for
TransitionFunctions ==
    {<<"pending", "quoting">>, <<"quoting", "signing">>, <<"signing", "submitted">>,
     <<"submitted", "confirmed">>, <<"submitted", "failed">>,
     <<"pending", "cancelled">>, <<"quoting", "cancelled">>, <<"signing", "cancelled">>}

IdleTxn == [pc |-> "idle", row |-> 0, expected |-> "", to |-> "", result |-> ""]

\* The one row the attempts are made on is inserted
InsertRaceRow ==
    /\ sweeps = <<>>
    /\ CreateSweep

\* A transition function starts: it reads the current status and checks that
\* its transition is legal from it
ReadStatus(w, i, to) ==
    /\ txns[w].pc = "idle"
    /\ <<sweeps[i].status, to>> \in TransitionFunctions
    /\ txns' = [txns EXCEPT ![w] =
          [pc |-> "read", row |-> i, expected |-> sweeps[i].status, to |-> to, result |-> ""]]
    /\ UNCHANGED <<sweeps, outsideRace>>

\* WriteStatus, had it been an unconditional update
WriteStatusUnconditional(w) ==
    /\ txns[w].pc = "read"
    /\ sweeps' = [sweeps EXCEPT ![txns[w].row] = [@ EXCEPT !.status = txns[w].to]]
    /\ txns' = [txns EXCEPT ![w] = [@ EXCEPT !.pc = "done", !.result = "written"]]
    /\ UNCHANGED outsideRace

\* The transition function writes: an update of the row conditional on the
\* status still being the one that was read
WriteStatus(w) ==
    /\ txns[w].pc = "read"
    /\ IF sweeps[txns[w].row].status = txns[w].expected
       THEN /\ sweeps' = [sweeps EXCEPT ![txns[w].row] = [@ EXCEPT !.status = txns[w].to]]
            /\ txns' = [txns EXCEPT ![w] = [@ EXCEPT !.pc = "done", !.result = "written"]]
       ELSE /\ txns' = [txns EXCEPT ![w] = [@ EXCEPT !.pc = "done", !.result = "conflict"]]
            /\ UNCHANGED sweeps
    /\ UNCHANGED outsideRace

\* The transition function returns
ReturnTxn(w) ==
    /\ txns[w].pc = "done"
    /\ txns' = [txns EXCEPT ![w] = IdleTxn]
    /\ UNCHANGED <<sweeps, outsideRace>>

(***************************************************************************)
(* The quote selector                                                      *)
(***************************************************************************)
\* What an adapter gives the selector: it is not available for the chain
\* (and is not asked), it returns null, it throws, or it returns a quote.
\* outputAmount and estimatedGasUsd are in the same unit.
Quotes ==
    {[kind |-> "quote", outputAmount |-> o, estimatedGasUsd |-> g, priceImpact |-> i] :
        o \in {98, 100}, g \in {1, 4}, i \in {1, 2}}
NoQuote == [kind |-> "null", outputAmount |-> 0, estimatedGasUsd |-> 0, priceImpact |-> 0]
AdapterResponses ==
    Quotes \cup {[NoQuote EXCEPT !.kind = k] : k \in {"unavailable", "null", "error"}}

\* outputAmount net of estimatedGasUsd
NetOutput(q) == q.outputAmount - q.estimatedGasUsd

\* Better, had it compared the gross output
BetterGross(a, b) ==
    \/ a.outputAmount > b.outputAmount
    \/ a.outputAmount = b.outputAmount /\ a.priceImpact < b.priceImpact

\* Quote a is to be preferred to quote b
Better(a, b) ==
    \/ NetOutput(a) > NetOutput(b)
    \/ NetOutput(a) = NetOutput(b) /\ a.priceImpact < b.priceImpact

\* The selector over the adapters' responses, best: the best quote so far
RECURSIVE SelectBest(_, _)
SelectBest(responses, best) ==
    IF responses = <<>> THEN best
    ELSE LET r == Head(responses)
         IN  SelectBest(Tail(responses),
                        IF r.kind # "quote" THEN best
                        ELSE IF best.kind # "quote" THEN r
                        ELSE IF Better(r, best) THEN r ELSE best)

NoSelection == [responses |-> <<>>, best |-> NoQuote, calls |-> 0]

\* The selector is called with the adapters answering as in responses
GetBestQuote(responses) ==
    /\ selection.calls = 0
    /\ selection' = [responses |-> responses, best |-> SelectBest(responses, NoQuote),
                     calls |-> 1]
    /\ UNCHANGED <<scanned, response, outsideServices>>

\* The caller is done with the result
ForgetSelection ==
    /\ selection.calls = 1
    /\ selection' = NoSelection
    /\ UNCHANGED <<scanned, response, outsideServices>>

(***************************************************************************)
(* SolanaScanner.  USD amounts are in cents.                               *)
(***************************************************************************)
\* DUST_THRESHOLD_USD, imported from wallet/types: 1.00 USD
DUST_THRESHOLD_USD == 100

\* Lamports per SOL (1e9) and the native balance and SOL price of the model
LamportsPerSol == Pow10(9)
NativeLamports == Pow10(9)
SolPriceUsd == 5000

\* getValidatedPrice(asset.id, "solana"): it throws, or gives a price per
\* whole token
OraclePrices ==
    {[throws |-> TRUE, price |-> 0]} \cup {[throws |-> FALSE, price |-> p] : p \in {0, 3, 10}}

\* The assets Helius lists: without token_info, with balance 0, or held.
\* total_price 0 stands for a price_info that is missing or without price.
NoTokenInfo == [token_info |-> FALSE, balance |-> 0, decimals |-> 0, total_price |-> 0,
                oracle |-> [throws |-> TRUE, price |-> 0]]
HeliusAssets ==
    {NoTokenInfo, [NoTokenInfo EXCEPT !.token_info = TRUE]} \cup
    {[token_info |-> TRUE, balance |-> 10, decimals |-> d, total_price |-> p, oracle |-> o] :
        d \in {0, 1}, p \in {0, 30, 1500}, o \in OraclePrices}

\* isDust, had it counted zero-value tokens and tokens at the threshold
IsDustInclusive(valueUsd) == valueUsd <= DUST_THRESHOLD_USD /\ valueUsd >= 0

\* const isDust = valueUsd < DUST_THRESHOLD_USD && valueUsd > 0
IsDust(valueUsd) == valueUsd < DUST_THRESHOLD_USD /\ valueUsd > 0

NullToken == [kind |-> "null", address |-> 0, valueUsd |-> 0, isDust |-> FALSE]

\* parseFloat(balanceFormatted): the balance in whole tokens
BalanceFormatted(asset) == asset.balance \div Pow10(asset.decimals)

\* assetToToken, had it let the failure of the price service through
AssetToTokenNoCatch(id, asset) ==
    IF ~asset.token_info \/ asset.balance = 0 THEN NullToken
    ELSE IF asset.total_price = 0 /\ asset.oracle.throws
         THEN [NullToken EXCEPT !.kind = "throws"]
    ELSE LET valueUsd == IF asset.total_price # 0 THEN asset.total_price
                         ELSE BalanceFormatted(asset) * asset.oracle.price
         IN  [kind |-> "token", address |-> id, valueUsd |-> valueUsd,
              isDust |-> IsDust(valueUsd)]

\* assetToToken(asset), for the asset with this id
AssetToToken(id, asset) ==
    IF ~asset.token_info \/ asset.balance = 0 THEN NullToken
    ELSE LET valueUsd ==
                 IF asset.total_price # 0 THEN asset.total_price
                 ELSE IF asset.oracle.throws THEN 0
                 ELSE BalanceFormatted(asset) * asset.oracle.price
         IN  [kind |-> "token", address |-> id, valueUsd |-> valueUsd,
              isDust |-> IsDust(valueUsd)]

\* dustTokens.reduce((sum, d) => sum + d.usdValue, 0)
RECURSIVE SumUsdValue(_)
SumUsdValue(tokens) ==
    IF tokens = <<>> THEN 0 ELSE Head(tokens).usdValue + SumUsdValue(Tail(tokens))

\* tokens.reduce((sum, t) => sum + t.valueUsd, 0)
RECURSIVE SumValueUsd(_)
SumValueUsd(tokens) ==
    IF tokens = <<>> THEN 0 ELSE Head(tokens).valueUsd + SumValueUsd(Tail(tokens))

ScanThrows == [kind |-> "throws", tokens |-> <<>>, nativeValueUsd |-> 0, totalValueUsd |-> 0,
               dustValueUsd |-> 0, dustTokenCount |-> 0]

\* Which of the three calls scan starts with fails, if any
ScanFailures == {"none", "fetchTokenAccounts", "fetchNativeBalance", "getSolPrice"}

\* scan(address): the ChainBalance, or the exception it ends with
Scan(failure, assets) ==
    LET tokensWithNulls == [i \in 1 .. Len(assets) |-> AssetToToken(i, assets[i])]
        tokens == SelectSeq(tokensWithNulls, LAMBDA t : t.kind # "null")
        nativeValueUsd == (NativeLamports \div LamportsPerSol) * SolPriceUsd
        dustTokens == SelectSeq(tokens, LAMBDA t : t.isDust)
    IN  IF failure # "none" THEN ScanThrows
        ELSE IF \E i \in 1 .. Len(tokensWithNulls) : tokensWithNulls[i].kind = "throws"
             THEN ScanThrows
        ELSE [kind |-> "balance", tokens |-> tokens, nativeValueUsd |-> nativeValueUsd,
              totalValueUsd |-> SumValueUsd(tokens) + nativeValueUsd,
              dustValueUsd |-> SumValueUsd(dustTokens),
              dustTokenCount |-> Len(dustTokens)]

NoScan == [failure |-> "none", assets |-> <<>>, result |-> ScanThrows, calls |-> 0]

\* solanaScanner.scan is called for a wallet holding these assets
ScanWallet(failure, assets) ==
    /\ scanned.calls = 0
    /\ scanned' = [failure |-> failure, assets |-> assets, result |-> Scan(failure, assets),
                   calls |-> 1]
    /\ UNCHANGED <<selection, response, outsideServices>>

\* The caller is done with the result
ForgetScan ==
    /\ scanned.calls = 1
    /\ scanned' = NoScan
    /\ UNCHANGED <<selection, response, outsideServices>>

(***************************************************************************)
(* The wallet endpoints: GET /api/wallet/:address/balances and /dust       *)
(***************************************************************************)
\* Two of the chains of chainQuerySchema
ScanChains == {"ethereum", "base"}

\* A token balance as the endpoints read it (usdValue, in cents)
TokenBalances == {[usdValue |-> v] : v \in {30, 1500}}

\* How the scan of one chain ends: it fails, or it gives the chain's balances
ChainOutcomes ==
    {[kind |-> "error", tokens |-> <<>>]} \cup
    {[kind |-> "list", tokens |-> ts] : ts \in SeqsUpTo(TokenBalances, MaxTokens)}

\* A request: the endpoint, the chain query parameter ("all" when absent),
\* how each chain's scan ends, and whether filterDustTokens throws when it
\* is given something that is no list of balances
WalletRequests ==
    [route : {"balances", "dust"}, chain : ScanChains \cup {"all"},
     scans : [ScanChains -> ChainOutcomes], filterThrows : BOOLEAN]

\* scanAllChains(address): every chain is scanned; a chain whose scan fails
\* is surfaced as an error entry next to the balances of the others
ScanAllChains(scans) == [c \in ScanChains |-> scans[c]]

\* filterDustTokens(balances): the dust among a chain's balances; given an
\* error entry it throws or finds no dust
FilterDustTokens(entry, filterThrows) ==
    IF entry.kind = "list"
    THEN [kind |-> "list", tokens |-> SelectSeq(entry.tokens, LAMBDA t : IsDust(t.usdValue))]
    ELSE IF filterThrows THEN [kind |-> "throws", tokens |-> <<>>]
    ELSE [kind |-> "list", tokens |-> <<>>]

\* reduce over the entries of a map of chains
RECURSIVE SumOverChains(_, _)
SumOverChains(f, chains) ==
    IF chains = {} THEN 0
    ELSE LET c == CHOOSE x \in chains : TRUE
         IN  f[c] + SumOverChains(f, chains \ {c})

\* c.json({ error }, 500)
ServerError ==
    [status |-> 500, entries |-> <<>>, totalTokens |-> 0, totalValueUsd |-> 0, chains |-> {}]

\* The /balances handler
BalancesResponse(req) ==
    IF req.chain # "all"
    THEN IF req.scans[req.chain].kind = "error" THEN ServerError
         ELSE [status |-> 200, entries |-> (req.chain :> req.scans[req.chain]),
               totalTokens |-> Len(req.scans[req.chain].tokens),
               totalValueUsd |-> 0, chains |-> {req.chain}]
    ELSE LET allBalances == ScanAllChains(req.scans)
         IN  [status |-> 200, entries |-> allBalances,
              \* sum + arr.length is NaN once an entry has no length
              totalTokens |->
                  IF \E c \in ScanChains : allBalances[c].kind # "list" THEN NaN
                  ELSE SumOverChains([c \in ScanChains |-> Len(allBalances[c].tokens)],
                                     ScanChains),
              totalValueUsd |-> 0, chains |-> ScanChains]

\* The /dust handler
DustResponse(req) ==
    IF req.chain # "all" /\ req.scans[req.chain].kind = "error" THEN ServerError
    ELSE LET allBalances == IF req.chain # "all"
                            THEN (req.chain :> req.scans[req.chain])
                            ELSE ScanAllChains(req.scans)
             names == DOMAIN allBalances
             dustByChain == [c \in names |-> FilterDustTokens(allBalances[c], req.filterThrows)]
         IN  IF \E c \in names : dustByChain[c].kind = "throws" THEN ServerError
             ELSE [status |-> 200, entries |-> dustByChain,
                   totalTokens |->
                       SumOverChains([c \in names |-> Len(dustByChain[c].tokens)], names),
                   \* toFixed(2): the sum in whole cents
                   totalValueUsd |->
                       SumOverChains([c \in names |-> SumUsdValue(dustByChain[c].tokens)], names),
                   chains |-> {c \in names : Len(dustByChain[c].tokens) > 0}]

NoResponse ==
    [calls |-> 0,
     request |-> [route |-> "balances", chain |-> "all",
                  scans |-> [c \in ScanChains |-> [kind |-> "error", tokens |-> <<>>]],
                  filterThrows |-> FALSE],
     body |-> ServerError]

\* GET /api/wallet/:address/balances
GetBalances(req) ==
    /\ response.calls = 0
    /\ req.route = "balances"
    /\ response' = [calls |-> 1, request |-> req, body |-> BalancesResponse(req)]
    /\ UNCHANGED <<selection, scanned, outsideServices>>

\* GET /api/wallet/:address/dust
GetDust(req) ==
    /\ response.calls = 0
    /\ req.route = "dust"
    /\ response' = [calls |-> 1, request |-> req, body |-> DustResponse(req)]
    /\ UNCHANGED <<selection, scanned, outsideServices>>

\* The response has been sent
ForgetResponse ==
    /\ response.calls = 1
    /\ response' = NoResponse
    /\ UNCHANGED <<selection, scanned, outsideServices>>

(***************************************************************************)
(* SolanaScanner.fetchTokenAccounts: the pages of getAssetsByOwner         *)
(***************************************************************************)
\* asset.interface: the two fungible interfaces and one of the others
Interfaces == {"FungibleToken", "FungibleAsset", "V1_NFT"}

\* The assets the provider holds for a wallet, and the page on which its
\* response carries an error (0: on none)
OwnedAssets == SeqsUpTo(Interfaces, MaxOwned)
ErrorPages == 0 .. 3

\* result.items of the response for this page: the assets are numbered as
\* the provider lists them
ProviderPage(owned, page) ==
    LET first == (page - 1) * limit + 1
        last == IF page * limit < Len(owned) THEN page * limit ELSE Len(owned)
    IN  [k \in 1 .. (IF last < first THEN 0 ELSE last - first + 1) |->
            [id |-> first + k - 1, interface |-> owned[first + k - 1]]]

\* asset.interface === "FungibleToken" || asset.interface === "FungibleAsset"
IsFungible(asset) == asset.interface = "FungibleToken" \/ asset.interface = "FungibleAsset"

\* The end of the loop, had it looked at the filtered page
LastPageFiltered(items, fungibleAssets) == Len(fungibleAssets) < limit

\* if (result.items.length < limit) break
LastPage(items, fungibleAssets) == Len(items) < limit

NoFetch == [owned |-> <<>>, errorAt |-> 0, pc |-> "idle", page |-> 1, allAssets |-> <<>>,
            requested |-> <<>>, returned |-> <<>>]

\* fetchTokenAccounts(address) is called: allAssets = [], page = 1
StartFetch(owned, errorAt) ==
    /\ fetching.pc = "idle"
    /\ fetching' = [NoFetch EXCEPT !.owned = owned, !.errorAt = errorAt, !.pc = "loop"]
    /\ UNCHANGED <<clock, cache, jupiter, outsideAdapters>>

\* One round of while (true): the page is requested and its response handled
FetchPage ==
    /\ fetching.pc = "loop"
    /\ LET items == ProviderPage(fetching.owned, fetching.page)
           fungibleAssets == SelectSeq(items, IsFungible)
           allAssets == fetching.allAssets \o fungibleAssets
           asked == [fetching EXCEPT !.requested = Append(@, fetching.page)]
       IN  fetching' =
               IF fetching.errorAt = fetching.page
               THEN [asked EXCEPT !.pc = "threw"]
               ELSE IF LastPage(items, fungibleAssets)
               THEN [asked EXCEPT !.pc = "returned", !.allAssets = allAssets,
                                  !.returned = allAssets]
               ELSE [asked EXCEPT !.allAssets = allAssets, !.page = @ + 1]
    /\ UNCHANGED <<clock, cache, jupiter, outsideAdapters>>

\* The caller has the list, or the error
ForgetFetch ==
    /\ fetching.pc \in {"returned", "threw"}
    /\ fetching' = NoFetch
    /\ UNCHANGED <<clock, cache, jupiter, outsideAdapters>>

(***************************************************************************)
(* The cache helpers of utils/redis.ts                                     *)
(***************************************************************************)
CacheKeys == {"price:a", "price:b"}
CacheTtls == {1, 2}

\* The values a fetcher resolves to: null, numbers, the empty string
JsNull == [kind |-> "null", n |-> 0]
FetchedValues ==
    {JsNull, [kind |-> "number", n |-> 0], [kind |-> "number", n |-> 5],
     [kind |-> "string", n |-> 0]}

\* JSON.stringify(value)
JsonStringify(value) ==
    IF value.kind = "null" THEN "null"
    ELSE IF value.kind = "string" THEN "\"\""
    ELSE IF value.n = 0 THEN "0" ELSE "5"

\* JSON.parse(data)
JsonParse(data) ==
    IF data = "null" THEN JsNull
    ELSE IF data = "\"\"" THEN [kind |-> "string", n |-> 0]
    ELSE IF data = "0" THEN [kind |-> "number", n |-> 0]
    ELSE [kind |-> "number", n |-> 5]

\* A key redis does not hold
NoEntry == [data |-> "", expiresAt |-> 0]

\* redis holds the key: it was set and has not expired
Holds(entries, key, now) == entries[key].expiresAt > now

\* cacheGet(key): null when redis.get gives nothing, else the parsed data
cacheGet(entries, key, now) ==
    LET data == IF Holds(entries, key, now) THEN entries[key].data ELSE ""
    IN  IF data = "" THEN JsNull ELSE JsonParse(data)

\* cacheSet(key, value, ttlSeconds): setex
cacheSet(entries, key, value, ttlSeconds, now) ==
    [entries EXCEPT ![key] = [data |-> JsonStringify(value), expiresAt |-> now + ttlSeconds]]

\* present: redis held the key when it was read; fetched: the fetcher was
\* invoked; value: what the fetcher resolves to; at: the second of the return
IdleCall == [pc |-> "idle", key |-> "price:a", value |-> JsNull, ttl |-> 1,
             present |-> FALSE, fetched |-> FALSE, result |-> JsNull, at |-> 0]

NoCache == [entries |-> [k \in CacheKeys |-> NoEntry], call |-> IdleCall]

\* cacheGetOrFetch(key, fetcher, ttlSeconds) up to the return of a cached
\* value or the call of the fetcher
cacheGetOrFetch(key, value, ttlSeconds) ==
    /\ cache.call.pc = "idle"
    /\ LET cached == cacheGet(cache.entries, key, NowSec)
           call == [IdleCall EXCEPT !.key = key, !.value = value, !.ttl = ttlSeconds,
                                    !.present = Holds(cache.entries, key, NowSec)]
       IN  cache' = [cache EXCEPT !.call =
                        IF cached # JsNull
                        THEN [call EXCEPT !.pc = "returned", !.result = cached, !.at = NowSec]
                        ELSE [call EXCEPT !.pc = "fetch"]]
    /\ UNCHANGED <<clock, fetching, jupiter, outsideAdapters>>

\* const fresh = await fetcher()
FetcherResolves ==
    /\ cache.call.pc = "fetch"
    /\ cache' = [cache EXCEPT !.call.pc = "set", !.call.fetched = TRUE]
    /\ UNCHANGED <<clock, fetching, jupiter, outsideAdapters>>

\* The fetcher rejects, and cacheGetOrFetch with it
FetcherRejects ==
    /\ cache.call.pc = "fetch"
    /\ cache' = [cache EXCEPT !.call.pc = "threw", !.call.fetched = TRUE]
    /\ UNCHANGED <<clock, fetching, jupiter, outsideAdapters>>

\* await cacheSet(key, fresh, ttlSeconds); return fresh
StoreAndReturn ==
    /\ cache.call.pc = "set"
    /\ cache' = [entries |-> cacheSet(cache.entries, cache.call.key, cache.call.value,
                                      cache.call.ttl, NowSec),
                 call |-> [cache.call EXCEPT !.pc = "returned", !.result = cache.call.value,
                                             !.at = NowSec]]
    /\ UNCHANGED <<clock, fetching, jupiter, outsideAdapters>>

\* The caller has the value, or the error
ForgetCall ==
    /\ cache.call.pc \in {"returned", "threw"}
    /\ cache' = [cache EXCEPT !.call = IdleCall]
    /\ UNCHANGED <<clock, fetching, jupiter, outsideAdapters>>

(***************************************************************************)
(* JupiterAggregator                                                       *)
(***************************************************************************)
SOL_NATIVE_MINT == "So11111111111111111111111111111111111111112"
UsdcMint == "EPjFWdd5AufqSSqeM2qN1xzybapC8G4wEGGkZwyTDt1v"
SystemProgram == "11111111111111111111111111111111"
\* A mint whose token is counted in whole units: its metadata declares
\* decimals 0
WholeUnitMint == "WhoLeUnitsMint1111111111111111111111111111"
Mints == {SOL_NATIVE_MINT, UsdcMint, WholeUnitMint}

\* Seconds a quote lives; the positive value the DexQuote invariant asks for
DEFAULT_QUOTE_EXPIRY_SECONDS == 1

\* Math.floor(Date.now() / 1000), without the lifetime
ExpiresAtCreation(now) == now \div 1000

\* expiresAt: Math.floor(Date.now() / 1000) + DEFAULT_QUOTE_EXPIRY_SECONDS
ExpiresAt(now) == (now \div 1000) + DEFAULT_QUOTE_EXPIRY_SECONDS

\* isAvailable(chain)
isAvailable(chain) == chain = "solana"

normalizeTokenAddress(address) ==
    LET lowerAddress == toLowerCase(address)
    IN  IF lowerAddress = "sol" \/ lowerAddress = "native" \/ address = SystemProgram
        THEN SOL_NATIVE_MINT
        ELSE address

\* The requests of the model
QuoteRequests ==
    [chain : {"solana"}, inputToken : {"SOL", SOL_NATIVE_MINT, UsdcMint, WholeUnitMint},
     outputToken : {SOL_NATIVE_MINT, UsdcMint}, inputAmount : {"5"},
     includeCalldata : BOOLEAN]
    \cup {[chain |-> "base", inputToken |-> "0xab", outputToken |-> "0xfe",
           inputAmount |-> "5", includeCalldata |-> TRUE]}

\* How an HTTP request to the provider ends: an OK response, a response
\* that is not OK, or a rejected fetch
HttpOutcomes == {"ok", "not-ok", "network"}

\* How GET /quote ends: a route, no route for the pair (HTTP 400), rate
\* limit (HTTP 429), or a rejected fetch
QuoteOutcomes ==
    {[kind |-> "ok", routePlan |-> r] : r \in {"r1", "r2"}} \cup
    {[kind |-> k, routePlan |-> ""] : k \in {"no-route", "rate-limit", "network"}}

\* The amount the provider quotes over a route
OutAmount(routePlan) == IF routePlan = "r1" THEN "98" ELSE "100"

NullResponse ==
    [kind |-> "null", inputMint |-> "", outputMint |-> "", inAmount |-> "", outAmount |-> "",
     routePlan |-> ""]

\* getJupiterQuote(inputMint, outputMint, amount, slippageBps)
getJupiterQuote(inputMint, outputMint, amount, outcome) ==
    IF outcome.kind = "network" THEN [NullResponse EXCEPT !.kind = "throws"]
    ELSE IF outcome.kind # "ok" THEN NullResponse
    ELSE [kind |-> "response", inputMint |-> inputMint, outputMint |-> outputMint,
          inAmount |-> amount, outAmount |-> OutAmount(outcome.routePlan),
          routePlan |-> outcome.routePlan]

\* getSwapTransaction, had it been given a quote fetched anew
getSwapTransactionRequoted(quoteResponse, outcome) ==
    LET other == IF quoteResponse.routePlan = "r1" THEN "r2" ELSE "r1"
    IN  IF outcome = "network" THEN [kind |-> "throws", swapTransaction |-> <<>>]
        ELSE IF outcome # "ok" THEN [kind |-> "null", swapTransaction |-> <<>>]
        ELSE [kind |-> "response", swapTransaction |-> <<"swap", other, OutAmount(other)>>]

\* getSwapTransaction(quoteResponse, userPublicKey): the provider builds the
\* transaction for the quote response it is sent
getSwapTransaction(quoteResponse, outcome) ==
    IF outcome = "network" THEN [kind |-> "throws", swapTransaction |-> <<>>]
    ELSE IF outcome # "ok" THEN [kind |-> "null", swapTransaction |-> <<>>]
    ELSE [kind |-> "response",
          swapTransaction |-> <<"swap", quoteResponse.routePlan, quoteResponse.outAmount>>]

\* The token list's entry for a mint
NullInfo == [kind |-> "null", symbol |-> "", decimals |-> 0]
TokenInfoOf(mint) ==
    IF mint = SOL_NATIVE_MINT THEN [kind |-> "info", symbol |-> "SOL", decimals |-> 9]
    ELSE IF mint = WholeUnitMint THEN [kind |-> "info", symbol |-> "WHOLE", decimals |-> 0]
    ELSE [kind |-> "info", symbol |-> "USDC", decimals |-> 6]

\* getTokenInfo, had it no try/catch
getTokenInfoNoCatch(mint, outcome, tokenCache) ==
    IF mint \in tokenCache THEN [info |-> TokenInfoOf(mint), fetched |-> FALSE, set |-> FALSE]
    ELSE IF outcome = "ok" THEN [info |-> TokenInfoOf(mint), fetched |-> TRUE, set |-> TRUE]
    ELSE IF outcome = "network"
         THEN [info |-> [NullInfo EXCEPT !.kind = "throws"], fetched |-> TRUE, set |-> FALSE]
    ELSE [info |-> NullInfo, fetched |-> TRUE, set |-> FALSE]

\* getTokenInfo(mint), tokenCache being the mints the cache holds
getTokenInfo(mint, outcome, tokenCache) ==
    IF mint \in tokenCache THEN [info |-> TokenInfoOf(mint), fetched |-> FALSE, set |-> FALSE]
    ELSE IF outcome = "ok" THEN [info |-> TokenInfoOf(mint), fetched |-> TRUE, set |-> TRUE]
    ELSE [info |-> NullInfo, fetched |-> TRUE, set |-> FALSE]

\* inputTokenInfo?.symbol || "UNKNOWN", inputTokenInfo?.decimals || 9
QuoteToken(address, info) ==
    [address |-> address,
     symbol |-> IF info.kind = "info" /\ info.symbol # "" THEN info.symbol ELSE "UNKNOWN",
     decimals |-> IF info.kind = "info" /\ info.decimals # 0 THEN info.decimals ELSE 9]

NullQuote ==
    [aggregator |-> "", inputToken |-> QuoteToken("", NullInfo),
     outputToken |-> QuoteToken("", NullInfo), inputAmount |-> "", outputAmount |-> "",
     expiresAt |-> 0, route |-> "", calldata |-> <<>>]

\* getQuote(request): what it returns (kind "quote" or "null") or that it
\* throws, the tokenCache it leaves, the mints it looked up and the number of
\* quotes it fetched
getQuote(request, quoteOutcome, inputOutcome, outputOutcome, swapOutcome, tokenCache, now) ==
    LET inputMint == normalizeTokenAddress(request.inputToken)
        outputMint == normalizeTokenAddress(request.outputToken)
        quoteResponse == getJupiterQuote(inputMint, outputMint, request.inputAmount,
                                         quoteOutcome)
        inputTokenInfo == getTokenInfo(inputMint, inputOutcome, tokenCache)
        outputTokenInfo == getTokenInfo(outputMint, outputOutcome, tokenCache)
        cached == tokenCache \cup (IF inputTokenInfo.set THEN {inputMint} ELSE {})
                             \cup (IF outputTokenInfo.set THEN {outputMint} ELSE {})
        lookups == (IF inputTokenInfo.fetched THEN <<inputMint>> ELSE <<>>)
                   \o (IF outputTokenInfo.fetched THEN <<outputMint>> ELSE <<>>)
        quote == [aggregator |-> "jupiter",
                  inputToken |-> QuoteToken(quoteResponse.inputMint, inputTokenInfo.info),
                  outputToken |-> QuoteToken(quoteResponse.outputMint, outputTokenInfo.info),
                  inputAmount |-> quoteResponse.inAmount,
                  outputAmount |-> quoteResponse.outAmount,
                  expiresAt |-> ExpiresAt(now),
                  route |-> quoteResponse.routePlan,
                  calldata |-> <<>>]
        swapResponse == getSwapTransaction(quoteResponse, swapOutcome)
        null(held, looked, quotes) ==
            [kind |-> "null", quote |-> NullQuote, tokenCache |-> held, lookups |-> looked,
             quoteFetches |-> quotes]
        returns(q) ==
            [kind |-> "quote", quote |-> q, tokenCache |-> cached, lookups |-> lookups,
             quoteFetches |-> 1]
    IN  IF ~isAvailable(request.chain) THEN null(tokenCache, <<>>, 0)
        ELSE IF quoteResponse.kind # "response" THEN null(tokenCache, <<>>, 1)
        ELSE IF inputTokenInfo.info.kind = "throws" \/ outputTokenInfo.info.kind = "throws"
             THEN null(cached, lookups, 1)
        ELSE IF ~request.includeCalldata THEN returns(quote)
        ELSE IF swapResponse.kind = "throws" THEN null(cached, lookups, 1)
        ELSE IF swapResponse.kind = "null" THEN returns(quote)
        ELSE returns([quote EXCEPT !.calldata = swapResponse.swapTransaction])

\* buildCalldata, had it handed out whatever the quote holds
buildCalldataUnchecked(quote) == [kind |-> "returns", calldata |-> quote.calldata]

\* buildCalldata(quote)
buildCalldata(quote) ==
    IF quote.calldata # <<>> THEN [kind |-> "returns", calldata |-> quote.calldata]
    ELSE [kind |-> "throws", calldata |-> <<>>]

NotBuilt == [kind |-> "none", calldata |-> <<>>]

NoQuoteCall ==
    [calls |-> 0,
     request |-> [chain |-> "base", inputToken |-> "0xab", outputToken |-> "0xfe",
                  inputAmount |-> "5", includeCalldata |-> TRUE],
     quoteOutcome |-> [kind |-> "network", routePlan |-> ""], inputOutcome |-> "network",
     outputOutcome |-> "network", swapOutcome |-> "network", cachedBefore |-> {},
     createdAt |-> 0, kind |-> "null", quote |-> NullQuote, lookups |-> <<>>,
     quoteFetches |-> 0, built |-> NotBuilt]

NoJupiter == [tokenCache |-> {}, call |-> NoQuoteCall]

\* jupiterAggregator.getQuote(request) is called and returns
GetQuoteCall(request, quoteOutcome, inputOutcome, outputOutcome, swapOutcome) ==
    /\ jupiter.call.calls = 0
    /\ LET out == getQuote(request, quoteOutcome, inputOutcome, outputOutcome, swapOutcome,
                           jupiter.tokenCache, clock)
       IN  jupiter' =
               [tokenCache |-> out.tokenCache,
                call |-> [calls |-> 1, request |-> request, quoteOutcome |-> quoteOutcome,
                          inputOutcome |-> inputOutcome, outputOutcome |-> outputOutcome,
                          swapOutcome |-> swapOutcome, cachedBefore |-> jupiter.tokenCache,
                          createdAt |-> clock, kind |-> out.kind, quote |-> out.quote,
                          lookups |-> out.lookups, quoteFetches |-> out.quoteFetches,
                          built |-> NotBuilt]]
    /\ UNCHANGED <<clock, fetching, cache, outsideAdapters>>

\* jupiterAggregator.buildCalldata(quote) is called with the returned quote
BuildCalldataCall ==
    /\ jupiter.call.calls = 1
    /\ jupiter.call.kind = "quote"
    /\ jupiter.call.built = NotBuilt
    /\ jupiter' = [jupiter EXCEPT !.call.built = buildCalldata(jupiter.call.quote)]
    /\ UNCHANGED <<clock, fetching, cache, outsideAdapters>>

\* The caller is done with the quote; the tokenCache stays
ForgetQuoteCall ==
    /\ jupiter.call.calls = 1
    /\ jupiter' = [jupiter EXCEPT !.call = NoQuoteCall]
    /\ UNCHANGED <<clock, fetching, cache, outsideAdapters>>

(***************************************************************************)
(* The state after construction                                            *)
(***************************************************************************)
(***************************************************************************)
(* The dust_tokens table (db schema) and its unique index                  *)
(***************************************************************************)
MaxRows == 3        \* rows of the dust_tokens table

\* user_id is a nullable column (no notNull()): a row may have no owner
SqlNull == "NULL"
UserIds == {SqlNull, "user-1"}
DustChains == {"solana", "ethereum"}
TokenAddresses == {"mintA", "mintB"}
Balances == {1, 2}
DustRows == [userId : UserIds, chain : DustChains, tokenAddress : TokenAddresses,
             balance : Balances]

\* Equality as a unique index sees it: a NULL is distinct from every value,
\* another NULL included (uniqueIndex() without nullsNotDistinct())
IndexEq(a, b) == a # SqlNull /\ b # SqlNull /\ a = b

\* uniqueIndex("idx_dust_unique").on(userId, chain, tokenAddress): the rows
\* of the table an incoming row conflicts with
idx_dust_unique(rows, row) ==
    {i \in 1 .. Len(rows) :
        /\ IndexEq(rows[i].userId, row.userId)
        /\ IndexEq(rows[i].chain, row.chain)
        /\ IndexEq(rows[i].tokenAddress, row.tokenAddress)}

\* INSERT: rejected by the index when the row conflicts with a stored one
InsertDust(row) ==
    /\ Len(dust_tokens) < MaxRows
    /\ dust_tokens' = IF idx_dust_unique(dust_tokens, row) = {}
                     THEN Append(dust_tokens, row)
                     ELSE dust_tokens
    /\ UNCHANGED <<queues, sweeper, outsideLedger>>

\* The scan's upsert: INSERT ... ON CONFLICT (user_id, chain, token_address)
\* DO UPDATE: the conflicting row takes the new balance, and the row is
\* inserted when the index reports no conflict
UpsertDust(row) ==
    /\ Len(dust_tokens) < MaxRows
    /\ dust_tokens' = IF idx_dust_unique(dust_tokens, row) = {}
                     THEN Append(dust_tokens, row)
                     ELSE [i \in 1 .. Len(dust_tokens) |->
                              IF i \in idx_dust_unique(dust_tokens, row)
                              THEN [dust_tokens[i] EXCEPT !.balance = row.balance]
                              ELSE dust_tokens[i]]
    /\ UNCHANGED <<queues, sweeper, outsideLedger>>

\* DELETE of the oldest row
DeleteDust ==
    /\ dust_tokens # <<>>
    /\ dust_tokens' = Tail(dust_tokens)
    /\ UNCHANGED <<queues, sweeper, outsideLedger>>

(***************************************************************************)
(* The queue singleton: getQueues, getQueueEvents and closeQueues          *)
(***************************************************************************)
NumCallers == 2     \* callers of getQueues holding the record it returned
MaxInstances == 2   \* queue sets (and QueueEvents sets) created in one process

Callers == 1 .. NumCallers

\* A queue set is identified by its order of creation; 0 is null. A caller
\* holds the set getQueues returned to it and whether close() had been
\* called on that set at the time of the return.
NoHandle == [instance |-> 0, closed |-> FALSE, created |-> FALSE]

\* let queues = null; let queueEvents = null; nothing created, no shutdown
\* in progress
NoQueues ==
    [instance |-> 0, made |-> 0, closed |-> {},
     events |-> 0, madeEvents |-> 0, closedEvents |-> {},
     pc |-> "idle", resolved |-> 0,
     held |-> [c \in Callers |-> NoHandle]]

\* getQueues(): creates the six queues when the variable is null, and
\* returns the variable
getQueues(c) ==
    /\ queues.instance = 0 => queues.made < MaxInstances
    /\ LET instance == IF queues.instance = 0 THEN queues.made + 1 ELSE queues.instance
       IN  queues' = [queues EXCEPT
                        !.instance = instance,
                        !.made = IF queues.instance = 0 THEN @ + 1 ELSE @,
                        !.held[c] = [instance |-> instance,
                                     closed |-> instance \in queues.closed,
                                     created |-> queues.instance = 0]]
    /\ UNCHANGED <<dust_tokens, sweeper, outsideLedger>>

\* getQueueEvents(): the same, for the QueueEvents set
getQueueEvents ==
    /\ queues.events = 0
    /\ queues.madeEvents < MaxInstances
    /\ queues' = [queues EXCEPT !.events = queues.madeEvents + 1, !.madeEvents = @ + 1]
    /\ UNCHANGED <<dust_tokens, sweeper, outsideLedger>>

\* The second half of closeQueues, run from the state q: when queueEvents is
\* set, close() is called on each and the function awaits; otherwise the
\* function resolves
CloseEvents(q) ==
    IF q.events # 0
    THEN [q EXCEPT !.closedEvents = @ \cup {q.events}, !.pc = "awaiting-events"]
    ELSE [q EXCEPT !.pc = "idle", !.resolved = q.made]

\* closeQueues(), up to its first await: when queues is set, close() is
\* called on every queue and the function awaits Promise.all, leaving the
\* variable as it is
closeQueues ==
    /\ queues.pc = "idle"
    /\ queues' = IF queues.instance # 0
                 THEN [queues EXCEPT !.closed = @ \cup {queues.instance},
                                     !.pc = "awaiting-queues"]
                 ELSE CloseEvents(queues)
    /\ UNCHANGED <<dust_tokens, sweeper, outsideLedger>>

\* The queues' close() promises have resolved: queues = null, and the
\* function goes on to the QueueEvents
QueuesClosed ==
    /\ queues.pc = "awaiting-queues"
    /\ queues' = CloseEvents([queues EXCEPT !.instance = 0])
    /\ UNCHANGED <<dust_tokens, sweeper, outsideLedger>>

\* The QueueEvents' close() promises have resolved: queueEvents = null, and
\* closeQueues resolves
EventsClosed ==
    /\ queues.pc = "awaiting-events"
    /\ queues' = [queues EXCEPT !.events = 0, !.pc = "idle", !.resolved = queues.made]
    /\ UNCHANGED <<dust_tokens, sweeper, outsideLedger>>

(***************************************************************************)
(* The PiggyDustSweeper contract and its fee collector, as the contract    *)
(* tests exercise them                                                     *)
(***************************************************************************)
MaxBlocks == 2      \* block.timestamp runs over 0 .. MaxBlocks

\* uint256 constant INITIAL_FEE_BPS = 30; new PiggyFeeCollector(treasury, 30)
INITIAL_FEE_BPS == 30
FeeRates == {0, 1, INITIAL_FEE_BPS, 10000}

\* Total swap outputs, in units of the output token
Totals == {0, 1, 333, 10000}

address0 == "0x0"
Recipients == {address0, "user"}
VaultAddresses == {address0, "aave-pool"}
SweepDestinations == {"WALLET", "AAVE"}

\* SimpleSweepParams: the arrays by their lengths, the swaps by the output
\* they yield
SweepParams ==
    [tokensIn : 1 .. 2, amountsIn : 1 .. 2, totalSwapOutput : Totals,
     destination : SweepDestinations, vaultAddress : VaultAddresses,
     recipient : Recipients, deadline : 0 .. MaxBlocks + 1]

\* The fee rounded up
previewSweepFeeCeil(totalOutput, feeBps) ==
    LET feeAmount == (totalOutput * feeBps + 9999) \div 10000
    IN  [feeAmount |-> feeAmount, netOutput |-> totalOutput - feeAmount]

\* previewSweepFee(totalOutput) at the fee rate feeBps: the fee is the
\* rate's share of the output, rounded down, and the rest is the net output
previewSweepFee(totalOutput, feeBps) ==
    LET feeAmount == (totalOutput * feeBps) \div 10000
    IN  [feeAmount |-> feeAmount, netOutput |-> totalOutput - feeAmount]

\* The checks without the one on the vault address
RevertReasonNoVault(params, paused, timestamp) ==
    CASE paused -> "ContractPaused"
      [] params.deadline < timestamp -> "DeadlineExpired"
      [] params.recipient = address0 -> "ZeroAddress"
      [] params.tokensIn # params.amountsIn -> "LengthMismatch"
      [] OTHER -> "none"

\* The custom error sweep reverts with, "none" when the parameters pass: the
\* checks are made before any transfer, in this order
RevertReason(params, paused, timestamp) ==
    CASE paused -> "ContractPaused"
      [] params.deadline < timestamp -> "DeadlineExpired"
      [] params.recipient = address0 -> "ZeroAddress"
      [] params.tokensIn # params.amountsIn -> "LengthMismatch"
      [] params.destination # "WALLET" /\ params.vaultAddress = address0 -> "VaultRequired"
      [] OTHER -> "none"

\* Balances held before any sweep: deal(USDC, user, ...), and the fees the
\* collector has booked for other depositors
Holdings == {0, 5}

NoParams == [tokensIn |-> 1, amountsIn |-> 1, totalSwapOutput |-> 0,
             destination |-> "WALLET", vaultAddress |-> address0,
             recipient |-> "user", deadline |-> 0]
NoResult == [status |-> "none", error |-> "none", params |-> NoParams, timestamp |-> 0,
             totalSwapOutput |-> 0, feeAmount |-> 0, netOutput |-> 0, vaultShares |-> 0]
NoPreview == [totalOutput |-> 0, feeBps |-> 0, feeAmount |-> 0, netOutput |-> 0]

\* The token balances and the fee collector's book of a deployment whose
\* fee rate is feeBps: the user is funded with input tokens (deal) and
\* holds some of the output token, nothing has been swept
Deployed(feeBps, held) ==
    [timestamp |-> 0, feeBps |-> feeBps, paused |-> FALSE,
     balances |-> [input |-> 2, output |-> held, vaultShares |-> 0],
     accumulatedFees |-> held, result |-> NoResult, preview |-> NoPreview]

\* setUp(): every test runs on a deployment of its own, at the fee rate
\* feeBps
Deploy(feeBps, held) ==
    /\ sweeper' = [Deployed(feeBps, held) EXCEPT !.timestamp = sweeper.timestamp]
    /\ UNCHANGED <<dust_tokens, queues, outsideLedger>>

\* sweeper.setPaused(paused), by the owner
setPaused(paused) ==
    /\ sweeper.paused # paused
    /\ sweeper' = [sweeper EXCEPT !.paused = paused]
    /\ UNCHANGED <<dust_tokens, queues, outsideLedger>>

\* No call has been made on the deployment: a test makes one
Untested == sweeper.result.status = "none" /\ sweeper.preview = NoPreview

\* sweeper.previewSweepFee(totalOutput), a view
PreviewCall(totalOutput) ==
    /\ Untested
    /\ LET fee == previewSweepFee(totalOutput, sweeper.feeBps)
       IN  sweeper' = [sweeper EXCEPT
                         !.preview = [totalOutput |-> totalOutput, feeBps |-> sweeper.feeBps,
                                      feeAmount |-> fee.feeAmount,
                                      netOutput |-> fee.netOutput]]
    /\ UNCHANGED <<dust_tokens, queues, outsideLedger>>

\* sweeper.sweep(params), by the user: a revert undoes the whole call; a
\* sweep that passes pulls the input tokens, swaps them, books the fee with
\* the fee collector and sends the net output to the recipient or deposits
\* it in the vault for the recipient
sweep(params) ==
    /\ Untested
    /\ LET error == RevertReason(params, sweeper.paused, sweeper.timestamp)
           fee == previewSweepFee(params.totalSwapOutput, sweeper.feeBps)
           toWallet == params.destination = "WALLET"
       IN  sweeper' =
             IF error # "none"
             THEN [sweeper EXCEPT
                     !.result = [NoResult EXCEPT !.status = "reverted", !.error = error,
                                                 !.params = params,
                                                 !.timestamp = sweeper.timestamp]]
             ELSE [sweeper EXCEPT
                     !.balances = [input |-> @.input - params.amountsIn,
                                   output |-> IF toWallet THEN @.output + fee.netOutput
                                              ELSE @.output,
                                   vaultShares |-> IF toWallet THEN @.vaultShares
                                                   ELSE @.vaultShares + fee.netOutput],
                     !.accumulatedFees = @ + fee.feeAmount,
                     !.result = [status |-> "ok", error |-> "none",
                                 params |-> params, timestamp |-> sweeper.timestamp,
                                 totalSwapOutput |-> params.totalSwapOutput,
                                 feeAmount |-> fee.feeAmount,
                                 netOutput |-> fee.netOutput,
                                 vaultShares |-> IF toWallet THEN 0 ELSE fee.netOutput]]
    /\ UNCHANGED <<dust_tokens, queues, outsideLedger>>

\* A block is mined: block.timestamp moves on
MineBlock ==
    /\ sweeper.timestamp < MaxBlocks
    /\ sweeper' = [sweeper EXCEPT !.timestamp = @ + 1]
    /\ UNCHANGED <<dust_tokens, queues, outsideLedger>>

Init ==
    /\ clock = 0
    /\ store = [k \in Keys |-> 0]
    /\ reqs = [r \in Requests |-> IdleReq]
    /\ admitted = [k \in Keys |-> 0]
    /\ probe = [route |-> "sweep/execute", header |-> [kind |-> "missing", auth |-> NoAuth],
                now |-> 0, req |-> 0]
    /\ jobs = [q \in QueueNames |-> <<>>]
    /\ waiters = <<>>
    /\ sweeps = <<>>
    /\ multi = <<>>
    /\ orch = [s \in OrchSweeps |-> NewOrch]
    /\ txns = [w \in Writers |-> IdleTxn]
    /\ selection = NoSelection
    /\ scanned = NoScan
    /\ response = NoResponse
    /\ fetching = NoFetch
    /\ cache = NoCache
    /\ jupiter = NoJupiter
    /\ dust_tokens = <<>>
    /\ queues = NoQueues
    /\ sweeper = Deployed(INITIAL_FEE_BPS, 0)

\* The response is sent and the slot is free for the next request: the
\* middleware runs anew for every request
Retire(r) ==
    /\ reqs[r].pc = "done"
    /\ reqs' = [reqs EXCEPT ![r] = IdleReq]
    /\ UNCHANGED <<clock, store, admitted, probe, outsideGate>>

vars == <<clock, store, reqs, admitted, probe, jobs, waiters, sweeps, multi, orch, txns,
          selection, scanned, response, fetching, cache, jupiter, ledgerVars>>

(***************************************************************************)
(* SpecGate: concurrent requests through the payment gate                  *)
(***************************************************************************)
GateNext ==
    \/ \E r \in Requests, route \in Routes, h \in GateHeaders : Receive(r, route, h, FALSE)
    \/ \E r \in Requests : RedisGet(r)
    \/ \E r \in Requests : RedisSetex(r)
    \/ \E r \in Requests : Admit(r)
    \/ TickSecond

SpecGate == Init /\ [][GateNext]_vars

(***************************************************************************)
(* SpecWindow: one request at a time, every header, with the input of the  *)
(* latest verifyPayment run kept in probe                                  *)
(***************************************************************************)
WindowNext ==
    \/ \E route \in Routes, h \in AllHeaders : Receive(1, route, h, TRUE)
    \/ RedisGet(1)
    \/ RedisSetex(1)
    \/ Admit(1)
    \/ Retire(1)
    \/ TickSecond

SpecWindow == Init /\ [][WindowNext]_vars

(***************************************************************************)
(* SpecQueue: the enqueue functions and the workers, on all six queues     *)
(***************************************************************************)
QueueNext ==
    \/ \E d \in WalletScanData, o \in DelayOptions : addWalletScanJob(d, o)
    \/ \E d \in PriceUpdateData, o \in DelayOptions : addPriceUpdateJob(d, o)
    \/ \E d \in SweepExecuteData : addSweepExecuteJob(d)
    \/ \E d \in SweepTrackData, o \in DelayOptions : addSweepTrackJob(d, o)
    \/ \E d \in BridgeExecuteData : addBridgeExecuteJob(d)
    \/ \E d \in BridgeTrackData, o \in DelayOptions : addBridgeTrackJob(d, o)
    \/ \E bs \in SeqsUpTo(BridgeTrackData, MaxBulk) : addBulkBridgeTrackJobs(bs)
    \/ \E ts \in SeqsUpTo({[chain |-> d.chain, address |-> d.tokenAddress] :
                              d \in PriceUpdateData}, MaxBulk) :
          addBulkPriceUpdateJobs(ts)
    \/ \E q \in QueueNames : \E i \in 1 .. Len(jobs[q]) : PromoteJob(q, i)
    \/ \E q \in QueueNames : \E i \in 1 .. Len(jobs[q]) : StartJob(q, i)
    \/ \E q \in QueueNames : \E i \in 1 .. Len(jobs[q]) : CompleteJob(q, i)
    \/ \E q \in QueueNames : \E i \in 1 .. Len(jobs[q]) : FailJob(q, i)
    \/ \E q \in QueueNames : \E i \in 1 .. Len(jobs[q]) : PruneJob(q, i)
    \/ TickMs
    \/ DelayElapses(MaxMillis)

SpecQueue == Init /\ [][QueueNext]_vars

(***************************************************************************)
(* SpecWait: waitForJob calls on the sweep-track queue and its jobs        *)
(***************************************************************************)
WaitQueue == "sweep-track"

WaitNext ==
    \/ \E d \in SweepTrackData, o \in DelayOptions : addSweepTrackJob(d, o)
    \/ \E d \in SweepTrackData : waitForJob(WaitQueue, SweepTrackJobId(d))
    \/ \E i \in 1 .. Len(waiters) : TimeoutFires(i)
    \/ \E i \in 1 .. Len(jobs[WaitQueue]) : PromoteJob(WaitQueue, i)
    \/ \E i \in 1 .. Len(jobs[WaitQueue]) : StartJob(WaitQueue, i)
    \/ \E i \in 1 .. Len(jobs[WaitQueue]) : CompleteJob(WaitQueue, i)
    \/ \E i \in 1 .. Len(jobs[WaitQueue]) : FailJob(WaitQueue, i)
    \/ \E i \in 1 .. Len(jobs[WaitQueue]) : PruneJob(WaitQueue, i)
    \/ DelayElapses(MaxMillis)

SpecWait == Init /\ [][WaitNext]_vars

(***************************************************************************)
(* SpecSweep: the life of the rows of the sweeps table                     *)
(***************************************************************************)
SweepNext ==
    \/ CreateSweep
    \/ \E i \in 1 .. Len(sweeps) : StartQuoting(i)
    \/ \E i \in 1 .. Len(sweeps) : AwaitSignature(i)
    \/ \E i \in 1 .. Len(sweeps) : SubmitSweep(i)
    \/ \E i \in 1 .. Len(sweeps) : ConfirmSweep(i)
    \/ \E i \in 1 .. Len(sweeps) : FailSweep(i)
    \/ \E i \in 1 .. Len(sweeps) : CancelSweep(i)

SpecSweep == Init /\ [][SweepNext]_vars

(***************************************************************************)
(* SpecMulti: the legs of multi-chain sweeps                               *)
(***************************************************************************)
MultiNext ==
    \/ SubmitMulti
    \/ \E s \in 1 .. Len(multi), c \in Legs : LegSubmitted(s, c)
    \/ \E s \in 1 .. Len(multi), c \in Legs : LegConfirmed(s, c)
    \/ \E s \in 1 .. Len(multi), c \in Legs : LegFails(s, c)

SpecMulti == Init /\ [][MultiNext]_vars

(***************************************************************************)
(* SpecOrch: the orchestrator, the execution and tracking queues and the   *)
(* wall clock                                                              *)
(***************************************************************************)
OrchQueues == {"sweep-execute", "sweep-track", "bridge-execute", "bridge-track"}

OrchNext ==
    \/ \E s \in OrchSweeps : StartQuote(s)
    \/ \E s \in OrchSweeps : Requote(s)
    \/ \E s \in OrchSweeps : SignatureArrives(s)
    \/ \E s \in OrchSweeps : SubmitExecution(s)
    \/ \E s \in OrchSweeps : ExecutionBroadcast(s)
    \/ \E s \in OrchSweeps : ExecutionFailed(s)
    \/ \E s \in OrchSweeps : TrackConfirmed(s)
    \/ \E s \in OrchSweeps : TrackFailed(s)
    \/ \E s \in OrchSweeps : CancelOrch(s)
    \/ \E q \in OrchQueues : \E i \in 1 .. Len(jobs[q]) : PromoteJob(q, i)
    \/ \E q \in OrchQueues : \E i \in 1 .. Len(jobs[q]) : StartJob(q, i)
    \/ \E q \in {"sweep-execute", "bridge-execute"} :
          \E i \in 1 .. Len(jobs[q]) : FailJob(q, i)
    \/ TickSecond
    \/ DelayElapses(MaxSeconds * 1000)

SpecOrch == Init /\ [][OrchNext]_vars

(***************************************************************************)
(* SpecRace: concurrent transition attempts on one sweep                   *)
(***************************************************************************)
RaceNext ==
    \/ InsertRaceRow
    \/ \E w \in Writers, i \in 1 .. Len(sweeps), to \in SweepStatuses : ReadStatus(w, i, to)
    \/ \E w \in Writers : WriteStatus(w)
    \/ \E w \in Writers : ReturnTxn(w)

SpecRace == Init /\ [][RaceNext]_vars

(***************************************************************************)
(* SpecSelect: calls of the quote selector                                 *)
(***************************************************************************)
SelectNext ==
    \/ \E rs \in SeqsUpTo(AdapterResponses, MaxAdapters) : GetBestQuote(rs)
    \/ ForgetSelection

SpecSelect == Init /\ [][SelectNext]_vars

(***************************************************************************)
(* SpecScan: scans of Solana wallets                                       *)
(***************************************************************************)
ScanNext ==
    \/ /\ scanned.calls = 0
       /\ \E f \in ScanFailures, as \in SeqsUpTo(HeliusAssets, MaxAssets) : ScanWallet(f, as)
    \/ ForgetScan

SpecScan == Init /\ [][ScanNext]_vars

(***************************************************************************)
(* SpecWallet: requests to the wallet endpoints                            *)
(***************************************************************************)
WalletNext ==
    \/ /\ response.calls = 0
       /\ \E req \in WalletRequests : GetBalances(req) \/ GetDust(req)
    \/ ForgetResponse

SpecWallet == Init /\ [][WalletNext]_vars

(***************************************************************************)
(* SpecFetch: fetchTokenAccounts; the loop goes on while its requests are  *)
(* answered                                                                *)
(***************************************************************************)
FetchNext ==
    \/ /\ fetching.pc = "idle"
       /\ \E owned \in OwnedAssets, errorAt \in ErrorPages : StartFetch(owned, errorAt)
    \/ FetchPage
    \/ ForgetFetch

SpecFetch == Init /\ [][FetchNext]_vars /\ WF_vars(FetchPage)

(***************************************************************************)
(* SpecCache: calls of cacheGetOrFetch, one after the other, as time passes *)
(***************************************************************************)
CacheNext ==
    \/ \E key \in CacheKeys, value \in FetchedValues, ttl \in CacheTtls :
          cacheGetOrFetch(key, value, ttl)
    \/ FetcherResolves
    \/ FetcherRejects
    \/ StoreAndReturn
    \/ ForgetCall
    \/ TickSecond

SpecCache == Init /\ [][CacheNext]_vars

(***************************************************************************)
(* SpecJupiter: getQuote and buildCalldata calls, as time passes           *)
(***************************************************************************)
JupiterNext ==
    \/ /\ jupiter.call.calls = 0
       /\ \E request \in QuoteRequests, quoteOutcome \in QuoteOutcomes,
             inputOutcome \in HttpOutcomes, outputOutcome \in HttpOutcomes,
             swapOutcome \in HttpOutcomes :
             GetQuoteCall(request, quoteOutcome, inputOutcome, outputOutcome, swapOutcome)
    \/ BuildCalldataCall
    \/ ForgetQuoteCall
    \/ TickSecond
    \/ TickMs

SpecJupiter == Init /\ [][JupiterNext]_vars

(***************************************************************************)
(* SpecDust: inserts, upserts and deletes on the dust_tokens table         *)
(***************************************************************************)
DustNext ==
    \/ \E row \in DustRows : InsertDust(row)
    \/ \E row \in DustRows : UpsertDust(row)
    \/ DeleteDust

SpecDust == Init /\ [][DustNext]_vars

(***************************************************************************)
(* SpecSingleton: getQueues and getQueueEvents calls interleaved with a    *)
(* closeQueues, whose awaits let other callbacks run                       *)
(***************************************************************************)
SingletonNext ==
    \/ \E c \in Callers : getQueues(c)
    \/ getQueueEvents
    \/ closeQueues
    \/ QueuesClosed
    \/ EventsClosed

SpecSingleton == Init /\ [][SingletonNext]_vars

(***************************************************************************)
(* SpecSweeper: deployments, sweeps and fee previews on the contract       *)
(***************************************************************************)
SweeperNext ==
    \/ \E feeBps \in FeeRates, held \in Holdings : Deploy(feeBps, held)
    \/ \E paused \in BOOLEAN : setPaused(paused)
    \/ \E totalOutput \in Totals : PreviewCall(totalOutput)
    \/ /\ Untested
       /\ \E params \in SweepParams : sweep(params)
    \/ MineBlock

SpecSweeper == Init /\ [][SweeperNext]_vars

(***************************************************************************)
(* SpecReplay: two requests, one after the other, as hours pass            *)
(***************************************************************************)
ReplayNext ==
    \/ \E r \in {1, 2} : \E h \in ReplayHeaders : ReceiveInTurn(r, h)
    \/ \E r \in {1, 2} : RedisGet(r)
    \/ \E r \in {1, 2} : RedisSetex(r)
    \/ \E r \in {1, 2} : \E outcome \in HandlerOutcomes : AdmitWith(r, outcome)
    \/ \E seconds \in {1, NonceTtlBuffer} : Elapse(seconds)

SpecReplay == Init /\ [][ReplayNext]_vars

(***************************************************************************)
(* C1                                                                      *)
(***************************************************************************)
\* C1: for every payer address and nonce, at most one request carrying that
\* (from, nonce) is verified valid and reaches the downstream handler, over
\* every interleaving of the requests' redis.get and redis.setex.
C1_AtMostOneAdmission == \A k \in Keys : admitted[k] <= 1

(***************************************************************************)
(* C2, C3                                                                  *)
(***************************************************************************)
\* The business keys of a payload: what the claims call its identity
BusinessKeys(q, data) ==
    CASE q = "wallet-scan" -> <<data.walletAddress>>
      [] q = "price-update" -> <<data.chain, toLowerCase(data.tokenAddress)>>
      [] q = "sweep-execute" -> <<data.sweepId>>
      [] q = "sweep-track" -> <<data.sweepId, data.txHash>>
      [] q = "bridge-execute" -> <<data.planId>>
      [] q = "bridge-track" -> <<data.bridgeId, data.sourceTxHash>>

\* No two jobs of queue q are for the same business keys
OneJobPerIdentity(q) ==
    \A i, j \in 1 .. Len(jobs[q]) :
        i # j => BusinessKeys(q, jobs[q][i].data) # BusinessKeys(q, jobs[q][j].data)

\* C2: on sweep-execute, sweep-track, bridge-execute, bridge-track and
\* price-update (single and bulk enqueue), enqueueing again with the same
\* key creates no second job: a queue never holds two jobs of one identity.
C2_EnqueueIdempotent ==
    \A q \in QueueNames \ {"wallet-scan"} : OneJobPerIdentity(q)

\* A price-update job was enqueued again, under the other spelling of its
\* token address, while a worker had it
C2_Witness ==
    \E i \in 1 .. Len(jobs["price-update"]) :
        /\ jobs["price-update"][i].duplicated
        /\ jobs["price-update"][i].state = "active"
        /\ Len(jobs["price-update"]) = 1

\* C3: for every enqueue function, addWalletScanJob included, the jobId is a
\* function of the business keys only: enqueueing the same logical work at
\* two points in time gives the same jobId, and so no second job.
C3_JobIdFromBusinessKeys == \A q \in QueueNames : OneJobPerIdentity(q)

(***************************************************************************)
(* C4, C5                                                                  *)
(***************************************************************************)
\* C4 (attemptsMade counts the attempts of a job that failed): on sweep-track and bridge-track a job whose attempt fails is failed
\* at once and is never retried: no tracking job with a failed attempt is in
\* another state than failed, and none has more than one attempt.
C4_TrackingSingleAttempt ==
    \A q \in {"sweep-track", "bridge-track"} : \A i \in 1 .. Len(jobs[q]) :
        jobs[q][i].attemptsMade >= 1 =>
            jobs[q][i].state = "failed" /\ jobs[q][i].attemptsMade = 1

\* The attempt ceilings C5 names
Ceiling(q) == IF q = "sweep-execute" THEN 5 ELSE 3
CeilingQueues == {"sweep-execute", "wallet-scan", "price-update", "bridge-execute"}

\* C5: a sweep-execute job is attempted at most 5 times, a wallet-scan,
\* price-update or bridge-execute job at most 3 times: a job is failed
\* exactly when as many attempts as the ceiling have failed, before that a
\* failure reschedules it, and a failed job stays failed for as long as the
\* queue keeps it.
C5_AttemptCeiling ==
    /\ [](\A q \in CeilingQueues : \A i \in 1 .. Len(jobs[q]) :
            /\ jobs[q][i].attemptsMade <= Ceiling(q)
            /\ jobs[q][i].state = "failed" <=> jobs[q][i].attemptsMade = Ceiling(q))
    /\ [][\A q \in CeilingQueues : \A i \in 1 .. Len(jobs[q]) :
            jobs[q][i].state = "failed" =>
                \A k \in 1 .. Len(jobs'[q]) :
                    jobs'[q][k].id = jobs[q][i].id => jobs'[q][k].state = "failed"]_vars

\* A sweep-execute job failed for the fifth time and is failed
C5_Witness ==
    \E i \in 1 .. Len(jobs["sweep-execute"]) :
        /\ jobs["sweep-execute"][i].state = "failed"
        /\ jobs["sweep-execute"][i].attemptsMade = 5

(***************************************************************************)
(* C6, C7                                                                  *)
(***************************************************************************)
\* The job of waiter w goes from one state to another in this step
JobGoes(w, from, to) ==
    /\ JobState(jobs[w.queue], w.jobId) = from
    /\ JobState(jobs'[w.queue], w.jobId) = to

\* C6: the promise of waitForJob settles once, with the first of: the
\* return value of its job when the job completes, the failure reason of its
\* job when the job ends failed, the timeout error when its timer fires.  A
\* settled promise never changes, and the events of other jobs settle
\* nothing.
C6_SettlesOnceWithFirst ==
    [][\A i \in 1 .. Len(waiters) :
         LET w == waiters[i]
             after == waiters'[i]
         IN  /\ w.promise.state # "pending" => after.promise = w.promise
             /\ w.promise.state = "pending" =>
                  /\ JobGoes(w, "active", "completed") =>
                        after.promise = [state |-> "resolved", value |-> ReturnValue(w.jobId)]
                  /\ JobGoes(w, "active", "failed") =>
                        after.promise = [state |-> "rejected", value |-> FailedReason(w.jobId)]
                  /\ after.promise.state = "resolved" =>
                        /\ JobGoes(w, "active", "completed")
                        /\ after.promise.value = ReturnValue(w.jobId)
                  /\ after.promise.state = "rejected" =>
                        \/ /\ JobGoes(w, "active", "failed")
                           /\ after.promise.value = FailedReason(w.jobId)
                        \/ /\ w.timer = "armed" /\ after.timer = "fired"
                           /\ after.promise.value = TimedOut(w.jobId)]_vars

\* A waiter got the return value of its job, and another job of the queue
\* ended failed
C6_Witness ==
    \E i \in 1 .. Len(waiters) :
        /\ waiters[i].promise = [state |-> "resolved", value |-> ReturnValue(waiters[i].jobId)]
        /\ waiters[i].timer = "cleared"
        /\ \E k \in 1 .. Len(jobs[waiters[i].queue]) :
              /\ jobs[waiters[i].queue][k].id # waiters[i].jobId
              /\ jobs[waiters[i].queue][k].state = "failed"

\* C7: the timeout of waitForJob leaves the jobs as they are: the step in
\* which a timer fires changes no queue, so the job is neither removed nor
\* failed by it and goes on to complete.
C7_TimeoutLeavesJob ==
    [][(\E i \in 1 .. Len(waiters) :
           waiters[i].timer = "armed" /\ waiters'[i].timer = "fired") => jobs' = jobs]_vars

\* A waiter timed out and its job is with a worker
C7_Witness ==
    \E i \in 1 .. Len(waiters) :
        /\ waiters[i].timer = "fired"
        /\ waiters[i].promise = [state |-> "rejected", value |-> TimedOut(waiters[i].jobId)]
        /\ JobState(jobs[waiters[i].queue], waiters[i].jobId) = "active"

(***************************************************************************)
(* C8                                                                      *)
(***************************************************************************)
\* The request of SpecWindow went through verifyPayment and got its answer
ProbeDecided ==
    /\ reqs[1].pc = "done"
    /\ probe.req = 1
    /\ RouteConfig(probe.route).enabled
    /\ probe.header.kind = "auth"

ProbeEarly == JsLt(probe.now, probe.header.auth.validAfter)
ProbeLate == JsGt(probe.now, probe.header.auth.validBefore)

\* C8 as stated: admitted only when validAfter <= now <= validBefore; at
\* every now < validAfter the rejection is 'Payment not yet valid' and at
\* every now > validBefore it is 'Payment expired', whatever the other
\* fields are.
C8_WindowWhateverTheFields ==
    ProbeDecided =>
        /\ reqs[1].result = Handled =>
              /\ probe.header.auth.validAfter # NaN
              /\ probe.header.auth.validBefore # NaN
              /\ probe.header.auth.validAfter <= probe.now
              /\ probe.now <= probe.header.auth.validBefore
        /\ ProbeEarly => reqs[1].result = "Payment not yet valid"
        /\ ProbeLate => reqs[1].result = "Payment expired"

(***************************************************************************)
(* C9                                                                      *)
(***************************************************************************)
\* C9: a request the gate does not admit (no header, undecodable header,
\* wrong receiver, insufficient amount, outside the window, used nonce, or
\* an exception in verifyPayment) never wrote the nonce store and its
\* downstream handler never ran; and a request writes the store only on its
\* way to the handler.
C9_RejectedHasNoEffect ==
    /\ [](\A r \in Requests :
            /\ (reqs[r].pc = "done" /\ reqs[r].result # Handled) => ~reqs[r].wrote
            /\ reqs[r].wrote => (reqs[r].pc = "wrote" \/ reqs[r].result = Handled))
    /\ [][/\ store' # store => \E r \in Requests : ~reqs[r].wrote /\ reqs'[r].wrote
          /\ admitted' # admitted =>
                \E r \in Requests : reqs[r].pc = "wrote" /\ reqs'[r].result = Handled]_vars

\* A replay was rejected while the first request's record is in the store
C9_Witness ==
    \E r, q \in Requests :
        /\ reqs[r].pc = "done" /\ reqs[r].result = "Nonce already used"
        /\ reqs[q].pc = "done" /\ reqs[q].wrote
        /\ \E k \in Keys : store[k] > 0

(***************************************************************************)
(* C10                                                                     *)
(***************************************************************************)
\* The transitions C10 allows
LegalTransitions ==
    {<<"pending", "quoting">>, <<"quoting", "signing">>, <<"signing", "submitted">>,
     <<"submitted", "confirmed">>, <<"submitted", "failed">>,
     <<"pending", "cancelled">>, <<"quoting", "cancelled">>, <<"signing", "cancelled">>}

\* C10: a sweep starts as pending; its status changes only along PENDING ->
\* QUOTING -> SIGNING -> SUBMITTED -> {CONFIRMED | FAILED} or from PENDING,
\* QUOTING or SIGNING to CANCELLED; CONFIRMED, FAILED and CANCELLED are
\* never left.
C10_StatusTransitions ==
    [][/\ Len(sweeps') >= Len(sweeps)
       /\ \A i \in 1 .. Len(sweeps) :
             \/ sweeps'[i].status = sweeps[i].status
             \/ <<sweeps[i].status, sweeps'[i].status>> \in LegalTransitions
       /\ \A i \in Len(sweeps) + 1 .. Len(sweeps') : sweeps'[i].status = "pending"]_vars

\* The table holds a confirmed, a failed and a cancelled sweep
C10_Witness ==
    /\ Len(sweeps) = 3
    /\ {sweeps[i].status : i \in 1 .. 3} = {"confirmed", "failed", "cancelled"}

(***************************************************************************)
(* C11, C12                                                                *)
(***************************************************************************)
\* C11: the overall status of a multi-chain sweep is CONFIRMED only if every
\* leg is CONFIRMED; as soon as a leg is FAILED the overall status is FAILED,
\* and a FAILED sweep never becomes CONFIRMED.
C11_OverallFollowsLegs ==
    /\ [](\A s \in 1 .. Len(multi) :
            /\ multi[s].status = "confirmed" =>
                  \A c \in Legs : multi[s].chainStatuses[c] = "confirmed"
            /\ (\E c \in Legs : multi[s].chainStatuses[c] = "failed") =>
                  multi[s].status = "failed")
    /\ [][\A s \in 1 .. Len(multi) :
            multi[s].status = "failed" => multi'[s].status = "failed"]_vars

\* One sweep is confirmed on every leg, another is failed with one leg
\* confirmed and one failed
C11_Witness ==
    \E s, t \in 1 .. Len(multi) :
        /\ multi[s].status = "confirmed"
        /\ multi[t].status = "failed"
        /\ \E c, d \in Legs : /\ multi[t].chainStatuses[c] = "confirmed"
                              /\ multi[t].chainStatuses[d] = "failed"

\* C12: a leg that is CONFIRMED is CONFIRMED in every later state, also
\* when another leg of its sweep fails or times out and the sweep is FAILED.
C12_ConfirmedLegStays ==
    [][\A s \in 1 .. Len(multi) : \A c \in Legs :
          multi[s].chainStatuses[c] = "confirmed" =>
              multi'[s].chainStatuses[c] = "confirmed"]_vars

\* Leg 1 confirmed before leg 2 failed: the sweep is failed, leg 1 is
\* confirmed
C12_Witness ==
    \E s \in 1 .. Len(multi) :
        /\ multi[s].status = "failed"
        /\ multi[s].chainStatuses[1] = "confirmed"
        /\ multi[s].chainStatuses[2] = "failed"

(***************************************************************************)
(* C13, C14, C16                                                           *)
(***************************************************************************)
\* The jobs of sweep s in queue q
JobsOf(q, s) ==
    IF q \notin {ExecQueue(s), TrackQueue(s)} THEN {}
    ELSE {i \in 1 .. Len(jobs[q]) :
            IF Kind(s) = "swap" THEN jobs[q][i].data.sweepId = s
            ELSE jobs[q][i].data.planId = s}

\* C13: QUOTING -> SIGNING is refused with QuoteExpired whenever the wall
\* clock is past the quote's expiresAt when the signature arrives: the step
\* to SIGNING is taken only with an unexpired quote, the refusal leaves the
\* status and the queues as they were, and a refused sweep has no job and
\* does not leave QUOTING (but by cancellation) until it is quoted again.
C13_QuoteExpiredRefused ==
    /\ [](\A s \in OrchSweeps :
            orch[s].error = "QuoteExpired" =>
                /\ orch[s].status \in {"quoting", "cancelled"}
                /\ \A q \in OrchQueues : JobsOf(q, s) = {})
    /\ [][\A s \in OrchSweeps :
            /\ (orch[s].status = "quoting" /\ orch'[s].status = "signing") =>
                  /\ NowSec <= orch[s].expiresAt
                  /\ orch[s].error = ""
            /\ (orch[s].error = "" /\ orch'[s].error = "QuoteExpired") =>
                  /\ NowSec > orch[s].expiresAt
                  /\ orch'[s].status = orch[s].status
                  /\ jobs' = jobs
            /\ (orch[s].error = "QuoteExpired" /\ orch'[s].error = "") =>
                  orch'[s].expiresAt >= NowSec + QuoteLifetime]_vars

\* A signature came for a quote that was valid when made and has expired
C13_Witness ==
    \E s \in OrchSweeps :
        /\ orch[s].status = "quoting"
        /\ orch[s].error = "QuoteExpired"
        /\ orch[s].expiresAt >= QuoteLifetime
        /\ NowSec > orch[s].expiresAt

\* C14: no execution job of a sweep is in a queue before the sweep's
\* signature is recorded, and no tracking job before the execution job was
\* submitted and gave the transaction hash the tracking job is named after;
\* the jobs of different sweeps come in any order.
C14_CausalEnqueue ==
    \A s \in OrchSweeps :
        /\ \A i \in JobsOf(ExecQueue(s), s) :
              /\ orch[s].signature # ""
              /\ jobs[ExecQueue(s)][i].data.signature = orch[s].signature
        /\ \A i \in JobsOf(TrackQueue(s), s) :
              /\ orch[s].txHash # <<>>
              /\ jobs[TrackQueue(s)][i].id = TrackJobId(s, orch[s].txHash)
              /\ JobState(jobs[ExecQueue(s)], ExecJobId(s)) = "completed"
        /\ JobsOf(ExecQueue(s), s) = {} => JobsOf(TrackQueue(s), s) = {}

\* The bridge plan is being tracked while the sweep is not yet signed
C14_Witness ==
    /\ JobsOf("bridge-track", "s2") # {}
    /\ orch["s1"].status = "quoting"
    /\ JobsOf("sweep-execute", "s1") = {}

\* What C16 requires of an execution payload: the quoted amounts, the route
\* and the expiry
QuoteSnapshotFields == {"outputAmount", "route", "expiresAt"}

\* C16: the payload of every execution job enqueued at SIGNING -> SUBMITTED
\* contains the quote snapshot itself: the quoted amounts, the route and the
\* expiry.
C16_PayloadCarriesQuote ==
    \A i \in 1 .. Len(jobs["sweep-execute"]) :
        QuoteSnapshotFields \subseteq DOMAIN jobs["sweep-execute"][i].data

(***************************************************************************)
(* C15                                                                     *)
(***************************************************************************)
\* C15: concurrent transition attempts on a sweep are serialized: of the
\* attempts that read the same status at most one writes, each write is
\* applied to the status its attempt read, and every change of the stored
\* status is a legal transition from the status stored before it.
C15_TransitionsSerialized ==
    /\ [](\A v, w \in Writers :
            (/\ v # w
             /\ txns[v].result = "written" /\ txns[w].result = "written"
             /\ txns[v].row = txns[w].row) => txns[v].expected # txns[w].expected)
    /\ [][/\ \A i \in 1 .. Len(sweeps) :
                \/ sweeps'[i].status = sweeps[i].status
                \/ <<sweeps[i].status, sweeps'[i].status>> \in LegalTransitions
          /\ \A w \in Writers :
                (txns[w].pc = "read" /\ txns'[w].result = "written") =>
                    /\ sweeps[txns[w].row].status = txns[w].expected
                    /\ sweeps'[txns[w].row].status = txns[w].to]_vars

\* Two attempts read SUBMITTED; the one to CONFIRMED wrote, the one to FAILED
\* met a conflict
C15_Witness ==
    \E v, w \in Writers :
        /\ txns[v].expected = "submitted" /\ txns[w].expected = "submitted"
        /\ txns[v].to = "confirmed" /\ txns[v].result = "written"
        /\ txns[w].to = "failed" /\ txns[w].result = "conflict"
        /\ sweeps[1].status = "confirmed"

(***************************************************************************)
(* C17                                                                     *)
(***************************************************************************)
\* The quotes among the responses of the latest selector call
QuotesGiven ==
    {selection.responses[i] : i \in {j \in 1 .. Len(selection.responses) :
                                        selection.responses[j].kind = "quote"}}

\* C17: the selector returns one of the quotes that were given, of the
\* highest outputAmount net of estimatedGasUsd and, among those of that net
\* output, of the lowest price impact; null, error and unavailable adapters
\* are ignored; it returns no quote only when no adapter gave one.
C17_SelectsBestNet ==
    selection.calls = 1 =>
        IF QuotesGiven = {} THEN selection.best.kind # "quote"
        ELSE /\ selection.best \in QuotesGiven
             /\ \A q \in QuotesGiven :
                   /\ NetOutput(selection.best) >= NetOutput(q)
                   /\ NetOutput(selection.best) = NetOutput(q) =>
                         selection.best.priceImpact <= q.priceImpact

\* Output 98 at gas 1 was preferred to output 100 at gas 4, given second
C17_Witness ==
    /\ selection.calls = 1
    /\ Len(selection.responses) = 2
    /\ selection.responses[1].kind = "quote" /\ selection.responses[2].kind = "quote"
    /\ selection.responses[1].outputAmount = 98 /\ selection.responses[1].estimatedGasUsd = 1
    /\ selection.responses[2].outputAmount = 100 /\ selection.responses[2].estimatedGasUsd = 4
    /\ selection.best = selection.responses[1]

(***************************************************************************)
(* C18, C19                                                                *)
(***************************************************************************)
\* The tokens of the latest scan result that the claims call dust
DustByValue ==
    {i \in 1 .. Len(scanned.result.tokens) :
        /\ 0 < scanned.result.tokens[i].valueUsd
        /\ scanned.result.tokens[i].valueUsd < DUST_THRESHOLD_USD}

\* C18: in every scan result a token is flagged isDust iff 0 < valueUsd <
\* DUST_THRESHOLD_USD, and dustTokenCount is the number of such tokens:
\* tokens worth exactly 0 and tokens at or above the threshold do not count.
C18_DustCount ==
    (scanned.calls = 1 /\ scanned.result.kind = "balance") =>
        /\ \A i \in 1 .. Len(scanned.result.tokens) :
              scanned.result.tokens[i].isDust <=> i \in DustByValue
        /\ scanned.result.dustTokenCount = Cardinality(DustByValue)

\* Holdings of 0.30 and 15.00 at threshold 1.00 give one dust token
C18_Witness ==
    /\ scanned.calls = 1 /\ scanned.result.kind = "balance"
    /\ Len(scanned.result.tokens) = 2
    /\ scanned.result.tokens[1].valueUsd = 30
    /\ scanned.result.tokens[2].valueUsd = 1500
    /\ scanned.result.dustTokenCount = 1

\* The held assets of the latest scan for which no price can be resolved
Unpriced ==
    {i \in 1 .. Len(scanned.assets) :
        /\ scanned.assets[i].token_info /\ scanned.assets[i].balance # 0
        /\ scanned.assets[i].total_price = 0 /\ scanned.assets[i].oracle.throws}

\* C19: a token with no price from the provider and a failing price service
\* is listed with valueUsd 0 and isDust false, adds nothing to dustTokenCount
\* and dustValueUsd, and does not make the scan fail.
C19_UnpricedNotDust ==
    (scanned.calls = 1 /\ scanned.failure = "none") =>
        /\ scanned.result.kind = "balance"
        /\ \A i \in Unpriced :
              \E k \in 1 .. Len(scanned.result.tokens) :
                  /\ scanned.result.tokens[k].address = i
                  /\ scanned.result.tokens[k].valueUsd = 0
                  /\ ~scanned.result.tokens[k].isDust
        /\ scanned.result.dustTokenCount =
              Cardinality({k \in 1 .. Len(scanned.result.tokens) :
                              scanned.result.tokens[k].address \notin Unpriced
                              /\ scanned.result.tokens[k].isDust})
        /\ scanned.result.dustValueUsd =
              SumValueUsd(SelectSeq(scanned.result.tokens,
                                    LAMBDA t : t.address \notin Unpriced /\ t.isDust))

\* An unpriced token is listed next to a dust token
C19_Witness ==
    /\ scanned.calls = 1 /\ scanned.result.kind = "balance"
    /\ Unpriced = {1}
    /\ Len(scanned.result.tokens) = 2
    /\ scanned.result.tokens[1].valueUsd = 0
    /\ scanned.result.dustTokenCount = 1
    /\ scanned.result.dustValueUsd = 30

(***************************************************************************)
(* C20                                                                     *)
(***************************************************************************)
\* The chains whose scan failed for the latest request
FailedChains == {c \in ScanChains : response.request.scans[c].kind = "error"}

\* C20: when a request for all chains finds the scan of some but not all
\* chains failing, it is answered with success, the answer holds the data of
\* every chain whose scan succeeded, and every failing chain appears in it
\* as an error entry.
C20_FailureIsolated ==
    (/\ response.calls = 1 /\ response.request.chain = "all"
     /\ FailedChains # {} /\ FailedChains # ScanChains) =>
        /\ response.body.status = 200
        /\ \A c \in ScanChains \ FailedChains :
              /\ c \in DOMAIN response.body.entries
              /\ response.body.entries[c].kind = "list"
              /\ response.request.route = "balances" =>
                    response.body.entries[c] = response.request.scans[c]
        /\ \A c \in FailedChains :
              /\ c \in DOMAIN response.body.entries
              /\ response.body.entries[c].kind = "error"

(***************************************************************************)
(* C21, C22                                                                *)
(***************************************************************************)
\* C21: a scan fails only when the balance provider fails (fetchTokenAccounts
\* or fetchNativeBalance); when the price service has no price for the
\* native token (getSolPrice) the scan still returns the tokens, with the
\* native balance valued at 0.
C21_PriceOutageDegrades ==
    (scanned.calls = 1 /\ scanned.failure \notin {"fetchTokenAccounts", "fetchNativeBalance"}) =>
        /\ scanned.result.kind = "balance"
        /\ scanned.failure = "getSolPrice" => scanned.result.nativeValueUsd = 0

\* What getValidatedPrice makes of an asset: 0 when it throws
OracleValueUsd(asset) ==
    IF asset.oracle.throws THEN 0 ELSE BalanceFormatted(asset) * asset.oracle.price

\* C22: the valueUsd of every token of a scan result is the value the price
\* service (getValidatedPrice) gives for that token, and comes from no other
\* price source.
C22_ValueFromOracle ==
    (scanned.calls = 1 /\ scanned.result.kind = "balance") =>
        \A k \in 1 .. Len(scanned.result.tokens) :
            scanned.result.tokens[k].valueUsd =
                OracleValueUsd(scanned.assets[scanned.result.tokens[k].address])

(***************************************************************************)
(* C23                                                                     *)
(***************************************************************************)
\* All the provider lists for the wallet of the latest fetch, numbered
AllOwned == [k \in 1 .. Len(fetching.owned) |-> [id |-> k, interface |-> fetching.owned[k]]]

\* The page was answered without error and held limit raw items
FullPage(page) ==
    /\ fetching.errorAt # page
    /\ Len(ProviderPage(fetching.owned, page)) = limit

\* C23: fetchTokenAccounts requests pages 1, 2, 3, ... in order and goes on
\* exactly while the pages are full before filtering; it returns the
\* fungible assets of all pages in page order, returns nothing when a page
\* carries an error, and it ends.
C23_Pagination ==
    /\ [](/\ fetching.requested = [k \in 1 .. Len(fetching.requested) |-> k]
          /\ \A k \in 1 .. Len(fetching.requested) - 1 : FullPage(k)
          /\ fetching.pc = "loop" =>
                /\ fetching.page = Len(fetching.requested) + 1
                /\ \A k \in 1 .. Len(fetching.requested) : FullPage(k)
          /\ fetching.pc = "returned" =>
                /\ fetching.requested # <<>>
                /\ fetching.errorAt # Len(fetching.requested)
                /\ Len(ProviderPage(fetching.owned, Len(fetching.requested))) < limit
                /\ fetching.returned = SelectSeq(AllOwned, IsFungible)
          /\ fetching.pc = "threw" =>
                /\ fetching.errorAt = Len(fetching.requested)
                /\ fetching.returned = <<>>)
    /\ (fetching.pc = "loop") ~> (fetching.pc \in {"returned", "threw"})

\* A first page full of non-fungible assets was followed by a page with a
\* fungible asset, which is returned
C23_Witness ==
    /\ fetching.pc = "returned"
    /\ Len(fetching.requested) = 2
    /\ \A k \in 1 .. limit : ~IsFungible(AllOwned[k])
    /\ fetching.returned # <<>>

(***************************************************************************)
(* C24                                                                     *)
(***************************************************************************)
\* C24: cacheGetOrFetch invokes the fetcher only when redis does not hold the
\* key (absent or expired); on a hit it returns the stored value, and on a
\* miss the fetched value is stored under the key with the given TTL by the
\* time it is returned, so that a call within the TTL is a hit.
C24_CacheBeforeFetch ==
    /\ cache.call.fetched => ~cache.call.present
    /\ (cache.call.pc = "returned" /\ cache.call.present) =>
          /\ ~cache.call.fetched
          /\ cache.call.result = JsonParse(cache.entries[cache.call.key].data)
    /\ (cache.call.pc = "returned" /\ ~cache.call.present) =>
          /\ cache.call.fetched
          /\ cache.call.result = cache.call.value
          /\ cache.entries[cache.call.key].data = JsonStringify(cache.call.value)
          /\ cache.entries[cache.call.key].expiresAt = cache.call.at + cache.call.ttl

(***************************************************************************)
(* C25 .. C29                                                              *)
(***************************************************************************)
\* The latest getQuote call was for a chain the adapter serves and the
\* provider answered with a route
Quoted ==
    /\ jupiter.call.calls = 1
    /\ isAvailable(jupiter.call.request.chain)
    /\ jupiter.call.quoteOutcome.kind = "ok"

\* C25: getQuote returns null exactly when it cannot serve the request (the
\* chain is not supported, or the provider has no route for the pair), and
\* throws on a transient failure of the provider (rejected fetch, rate
\* limit).
C25_NullMeansNoRoute ==
    jupiter.call.calls = 1 =>
        /\ jupiter.call.kind = "null" <=>
              \/ ~isAvailable(jupiter.call.request.chain)
              \/ jupiter.call.quoteOutcome.kind = "no-route"
        /\ (/\ isAvailable(jupiter.call.request.chain)
            /\ jupiter.call.quoteOutcome.kind \in {"rate-limit", "network"}) =>
              jupiter.call.kind = "throws"

C28_CalldataOfQuotedRoute ==
    (jupiter.call.calls = 1 /\ jupiter.call.kind = "quote") =>
        /\ jupiter.call.quoteFetches = 1
        /\ jupiter.call.quote.route = jupiter.call.quoteOutcome.routePlan
        /\ jupiter.call.quote.inputAmount = jupiter.call.request.inputAmount
        /\ jupiter.call.quote.outputAmount = OutAmount(jupiter.call.quote.route)
        /\ jupiter.call.quote.calldata # <<>> =>
              jupiter.call.quote.calldata =
                  <<"swap", jupiter.call.quote.route, jupiter.call.quote.outputAmount>>

\* A quote came back with calldata
C28_Witness ==
    /\ jupiter.call.calls = 1 /\ jupiter.call.kind = "quote"
    /\ jupiter.call.quote.calldata # <<>>

\* The mints of the latest request, and whether their lookup failed
InputMint == normalizeTokenAddress(jupiter.call.request.inputToken)
OutputMint == normalizeTokenAddress(jupiter.call.request.outputToken)
InputLookupFailed == InputMint \notin jupiter.call.cachedBefore /\ jupiter.call.inputOutcome # "ok"
OutputLookupFailed ==
    OutputMint \notin jupiter.call.cachedBefore /\ jupiter.call.outputOutcome # "ok"

\* The elements of a sequence
Range(seq) == {seq[k] : k \in 1 .. Len(seq)}

\* C29: whether getQuote returns a quote does not depend on the metadata
\* lookups; a failed lookup leaves symbol 'UNKNOWN' and the default decimals;
\* the tokenCache gains exactly the mints looked up with success, a mint it
\* holds is not fetched, and a mint it does not hold is.
C29_MetadataBestEffort ==
    Quoted =>
        /\ jupiter.call.kind = "quote" <=>
              (jupiter.call.request.includeCalldata => jupiter.call.swapOutcome # "network")
        /\ jupiter.call.kind # "throws"
        /\ (jupiter.call.kind = "quote" /\ InputLookupFailed) =>
              /\ jupiter.call.quote.inputToken.symbol = "UNKNOWN"
              /\ jupiter.call.quote.inputToken.decimals = 9
        /\ (jupiter.call.kind = "quote" /\ OutputLookupFailed) =>
              /\ jupiter.call.quote.outputToken.symbol = "UNKNOWN"
              /\ jupiter.call.quote.outputToken.decimals = 9
        /\ jupiter.tokenCache =
              jupiter.call.cachedBefore
                 \cup (IF jupiter.call.inputOutcome = "ok" THEN {InputMint} ELSE {})
                 \cup (IF jupiter.call.outputOutcome = "ok" THEN {OutputMint} ELSE {})
        /\ Range(jupiter.call.lookups) = {InputMint, OutputMint} \ jupiter.call.cachedBefore

\* After a lookup that succeeded, a quote with one mint served from the
\* tokenCache and the other mint's lookup failing
C29_Witness ==
    /\ Quoted /\ jupiter.call.kind = "quote"
    /\ InputMint \in jupiter.call.cachedBefore
    /\ OutputLookupFailed
    /\ jupiter.call.lookups = <<OutputMint>>
    /\ jupiter.call.quote.inputToken.symbol = "SOL"
    /\ jupiter.call.quote.outputToken.symbol = "UNKNOWN"

(***************************************************************************)
(* C30                                                                     *)
(***************************************************************************)
\* The job with this id was created by this step, delayed by this much
CreatedDelayed(q, id, delay) ==
    /\ JobIndex(jobs[q], id) = {}
    /\ \E i \in JobIndex(jobs'[q], id) :
          /\ jobs'[q][i].state = "delayed"
          /\ jobs'[q][i].timestamp = clock
          /\ jobs'[q][i].delay = delay

\* C30: a tracking job is not processed before the delay it was created
\* with is over; created with default options, a sweep-track job is delayed
\* by 5 s and a bridge-track job, added alone or in bulk, by 10 s, which is
\* longer.
C30_TrackingDelay ==
    /\ [](\A q \in {"sweep-track", "bridge-track"} : \A i \in 1 .. Len(jobs[q]) :
             jobs[q][i].state # "delayed" =>
                clock >= jobs[q][i].timestamp + jobs[q][i].delay)
    /\ [](BridgeTrackDelay > SweepTrackDelay)
    /\ [][\A d \in SweepTrackData :
             (addSweepTrackJob(d, <<>>) /\ JobIndex(jobs["sweep-track"], SweepTrackJobId(d)) = {})
                => CreatedDelayed("sweep-track", SweepTrackJobId(d), 5000)]_vars
    /\ [][\A d \in BridgeTrackData :
             (addBridgeTrackJob(d, <<>>)
              /\ JobIndex(jobs["bridge-track"], BridgeTrackJobId(d)) = {})
                => CreatedDelayed("bridge-track", BridgeTrackJobId(d), 10000)]_vars
    /\ [][\A bs \in SeqsUpTo(BridgeTrackData, MaxBulk) :
             addBulkBridgeTrackJobs(bs) =>
                \A k \in 1 .. Len(bs) :
                    JobIndex(jobs["bridge-track"], BridgeTrackJobId(bs[k])) = {}
                       => CreatedDelayed("bridge-track", BridgeTrackJobId(bs[k]), 10000)]_vars

\* A bridge-track job created with the default delay is being processed
C30_Witness ==
    \E i \in 1 .. Len(jobs["bridge-track"]) :
        /\ jobs["bridge-track"][i].state = "active"
        /\ jobs["bridge-track"][i].delay = BridgeTrackDelay
        /\ clock >= jobs["bridge-track"][i].timestamp + 10000

(***************************************************************************)
(* C31                                                                     *)
(***************************************************************************)
\* C31: the dust_tokens table never holds two rows with the same (owner,
\* chain, tokenAddress), whatever the owner is, rows without an owner
\* included.
C31_NoDuplicateDustRows ==
    \A i, j \in 1 .. Len(dust_tokens) :
        (/\ dust_tokens[i].userId = dust_tokens[j].userId
         /\ dust_tokens[i].chain = dust_tokens[j].chain
         /\ dust_tokens[i].tokenAddress = dust_tokens[j].tokenAddress) => i = j

(***************************************************************************)
(* C32                                                                     *)
(***************************************************************************)
\* C32: the queue set is a lazily created singleton: getQueues creates it
\* only when there is none, the first call and the first one after a
\* closeQueues resolved; until closeQueues every call returns the same
\* instances; and getQueues never hands out a queue on which close() has
\* already been called, however it interleaves with a closeQueues that is
\* still awaiting its closes.
C32_SingletonNeverClosed ==
    /\ [](\A c \in Callers : ~queues.held[c].closed)
    /\ [][\A c \in Callers : getQueues(c) =>
            /\ queues'.held[c].created = (queues.instance = 0)
            /\ queues.instance # 0 => queues'.held[c].instance = queues.instance
            /\ queues.instance = 0 => queues'.held[c].instance > queues.resolved]_vars

(***************************************************************************)
(* C33, C34                                                                *)
(***************************************************************************)
\* The errors whose condition the parameters meet at the time timestamp
ParameterErrors(params, timestamp) ==
    (IF params.deadline < timestamp THEN {"DeadlineExpired"} ELSE {})
    \cup (IF params.recipient = address0 THEN {"ZeroAddress"} ELSE {})
    \cup (IF params.tokensIn # params.amountsIn THEN {"LengthMismatch"} ELSE {})
    \cup (IF params.destination # "WALLET" /\ params.vaultAddress = address0
          THEN {"VaultRequired"} ELSE {})

\* A sweep call has run in this step
Swept == sweeper.result.status = "none" /\ sweeper'.result.status # "none"

\* C33: a sweep whose deadline is before block.timestamp, whose recipient is
\* the zero address, whose tokensIn and amountsIn differ in length, or whose
\* destination is not the wallet while vaultAddress is zero, reverts with
\* the error of a condition it meets (DeadlineExpired, ZeroAddress,
\* LengthMismatch, VaultRequired: the one of the condition when it meets a
\* single one), and no token balance and no accumulated fee changes.
C33_InvalidParamsRevert ==
    [][(/\ Swept
        /\ ~sweeper.paused
        /\ ParameterErrors(sweeper'.result.params, sweeper.timestamp) # {})
          => /\ sweeper'.result.status = "reverted"
             /\ sweeper'.result.error
                   \in ParameterErrors(sweeper'.result.params, sweeper.timestamp)
             /\ sweeper'.balances = sweeper.balances
             /\ sweeper'.accumulatedFees = sweeper.accumulatedFees]_vars

\* A sweep to a vault without a vault address, valid otherwise, has
\* reverted, on a deployment that holds balances and fees
C33_Witness ==
    /\ sweeper.result.status = "reverted"
    /\ sweeper.result.error = "VaultRequired"
    /\ ParameterErrors(sweeper.result.params, sweeper.result.timestamp) = {"VaultRequired"}
    /\ sweeper.accumulatedFees > 0
    /\ sweeper.balances.output > 0

FirstAdmitted == reqs[1].pc = "done" /\ reqs[1].wrote
SecondAnswered == FirstAdmitted /\ reqs[2].pc = "done"
ReplayRejections == {"Nonce already used", "Payment expired"}

\* The nonce record is written with a TTL of at least an hour and expires
\* after validBefore
RecordOutlivesAuthorization ==
    [][\A r \in {1, 2} :
         (RedisSetex(r) /\ store' # store)
            => /\ store'[reqs[r].key] - NowSec >= 3600
               /\ store'[reqs[r].key] > reqs[r].validBefore]_vars

\* C35: the nonce record of an admitted payment has a TTL of validBefore -
\* now + 3600 >= 3600 seconds and expires after validBefore; in a
\* sequential run, a second request with the same (from, nonce) is rejected
\* at every later time, as 'Nonce already used' or as 'Payment expired'.
C35_RecordOutlivesReplays ==
    /\ RecordOutlivesAuthorization
    /\ [](SecondAnswered /\ reqs[2].key = reqs[1].key
            => reqs[2].result \in ReplayRejections)

\* C36: the nonce of an admitted payment is in the store when the handler
\* starts, the handler's outcome (200, 501 or a thrown error) leaves the
\* store as it is, no step removes a record or shortens its life, and the
\* same payment presented again after the handler ended is rejected.
C36_NonceStaysUsed ==
    /\ [][\A r \in {1, 2} : \A outcome \in HandlerOutcomes :
            AdmitWith(r, outcome) => (NonceUsed(reqs[r].key) /\ store' = store)]_vars
    /\ [][\A k \in Keys : store'[k] >= store[k]]_vars
    /\ [](SecondAnswered /\ reqs[2].key = reqs[1].key
             /\ reqs[2].validBefore = reqs[1].validBefore
            => reqs[2].result \in ReplayRejections)

\* A payment whose handler failed was presented again, once while its
\* record was in the store and once after its expiry
C36_Witness ==
    /\ SecondAnswered
    /\ reqs[1].result = "throws"
    /\ reqs[2].key = reqs[1].key
    /\ reqs[2].validBefore = reqs[1].validBefore
    /\ reqs[2].result = "Payment expired"
    /\ ~NonceUsed(reqs[2].key)

\* C37: two authorizations with the same nonce whose from fields differ
\* only in letter case share one nonce record: once the first is admitted,
\* the second is rejected.
C37_CaseInsensitiveReplay ==
    (/\ SecondAnswered
     /\ reqs[2].key # reqs[1].key
     /\ toLowerCase(reqs[2].key[2]) = toLowerCase(reqs[1].key[2])
     /\ reqs[2].key[3] = reqs[1].key[3])
        => reqs[2].result \in ReplayRejections

(***************************************************************************)
(* C40                                                                     *)
(***************************************************************************)
\* The gate rejected the request r
GateRejected(r) ==
    /\ reqs[r].pc = "done"
    /\ reqs[r].result = "Payment required" \/ GateThrows(reqs[r].result)

\* C40: a client whose payment the gate rejects receives the status the
\* middleware chose: 402 for a missing header and for a payment that fails
\* verification, 400 for a header that does not decode; the global error
\* handler does not make it 500.
C40_RejectionKeepsStatus ==
    \A r \in Requests :
        GateRejected(r) =>
            /\ ClientStatus(reqs[r].result) = ChosenStatus(reqs[r].result)
            /\ ClientStatus(reqs[r].result) \in {400, 402}

(***************************************************************************)
(* C38                                                                     *)
(***************************************************************************)
\* The job the waiter w waits for has ended, completed or failed
Terminated(w) ==
    \E i \in 1 .. Len(jobs[w.queue]) :
        /\ jobs[w.queue][i].id = w.jobId
        /\ jobs[w.queue][i].state \in {"completed", "failed"}

\* C38: waitForJob reports the outcome of a job that ends before the
\* deadline, whatever the order of events: the timeout never settles the
\* promise of a waiter whose job has ended, also when the job's event was
\* emitted before waitForJob registered its listeners.
C38_OutcomeWhateverTheOrder ==
    [][\A i \in 1 .. Len(waiters) :
         (TimeoutFires(i) /\ waiters[i].promise.state = "pending")
            => ~Terminated(waiters[i])]_vars

(***************************************************************************)
(* C39                                                                     *)
(***************************************************************************)
\* C39: when the metadata of a mint is available, from the lookup or from
\* the tokenCache, the quote's decimals for that token are the decimals the
\* metadata declares, 0 included; 9 stands in only when the metadata is
\* unavailable.
C39_DeclaredDecimals ==
    (Quoted /\ jupiter.call.kind = "quote") =>
        /\ ~InputLookupFailed =>
              jupiter.call.quote.inputToken.decimals = TokenInfoOf(InputMint).decimals
        /\ ~OutputLookupFailed =>
              jupiter.call.quote.outputToken.decimals = TokenInfoOf(OutputMint).decimals
====
